---- MODULE Spec2Model ----
(***************************************************************************)
(* Model of the urban-expansion pipeline of simbyp_area_construida:        *)
(*   - src/src/utils.py        create_growth_clusters                      *)
(*   - src/src/maps.py         top_clusters                                *)
(*   - src/src/stats_utils.py  create_intersections,                       *)
(*                             calculate_expansion_areas                   *)
(*   - src/main.py             the skip-if-exists steps of main, for one   *)
(*                             label step by step (SpecPL) and for both    *)
(*                             labels call by call (SpecMain)              *)
(*   - src/src/utils.py        calculate_expansion_areas with the buffer   *)
(*                             summary (SpecBuf)                           *)
(*                                                                         *)
(* Geometry is discretised: a geometry is the set of grid cells it covers. *)
(* The empty set is the empty geometry, union is set union, "intersects"   *)
(* is a common cell, area is the number of cells times the cell area.      *)
(***************************************************************************)
EXTENDS Integers, FiniteSets, Sequences, TLC

VARIABLES
    input,          \* the features read from gdf_path, in file order
    gdf,            \* the GeoDataFrame of create_growth_clusters, by row index
    cluster_id,     \* the local cluster counter of create_growth_clusters
    i,              \* the index of the outer for loop
    current,        \* the union-so-far buffered geometry of the open cluster
    members,        \* the row indices absorbed into the open cluster
    changed,        \* the flag of the inner while loop
    pc,             \* position in the code
    calls,          \* how many times create_growth_clusters was called
    prev_partition, \* the partition returned by the previous call
    top,            \* the frame returned by top_clusters
    data,           \* band 1 of the raster new_urban_tif, by pixel
    nonpoly,        \* first pixels of the shapes the vectorizer reports as
                    \* something else than Polygon or MultiPolygon
    sac,            \* the restriction layer at sac_path
    res,            \* the restriction layer at reserva_path
    eep,            \* the restriction layer at eep_path
    upl,            \* the zone dataset at upl_path
    files,          \* the output files of the label: intersections,
                    \* no_intersections and the summary csv
    results,        \* create_intersections: the list of vectorized shapes
    features,       \* create_intersections: features / gdf_newurban
    gdf_inter,      \* gdf_inter of create_intersections, then of
                    \* calculate_expansion_areas
    gdf_no,         \* calculate_expansion_areas: gdf_no
    inter_upl,      \* calculate_expansion_areas: inter_upl
    nointer_upl,    \* calculate_expansion_areas: nointer_upl
    resumen,        \* calculate_expansion_areas: resumen
    raised,         \* the exception that ended the run, "none" if none
    run,            \* main: 1 in the first run of the month, 2 in the next
    aborted,        \* main: the run before this one was aborted inside
                    \* create_intersections
    mosaic,         \* main: per pixel, the built probability of the mosaics
                    \* before and current, in percent
    dw,             \* main: the rasters <label>.tif of DIRS["dw"], by label
    outputs,        \* main: the files of each label in DIRS["intersections"]
                    \* and DIRS["stats"]
    invoked,        \* main: the calls of export_image and
                    \* create_intersections made so far
    buffer,         \* utils.calculate_expansion_areas: bogota_buffer_path and
                    \* the dataset behind it
    save_summary,   \* utils.calculate_expansion_areas: save_summary
    cell_m2,        \* the area of one grid cell of its inputs, in m2
    resumen_buffer, \* utils.calculate_expansion_areas: resumen_buffer
    stats_dir,      \* utils.calculate_expansion_areas: the csv files of
                    \* output_dir
    returned,       \* utils.calculate_expansion_areas: the returned pair
    anio,           \* set_dates: the year argument
    mes,            \* set_dates: the month argument
    last_day_curr,  \* set_dates: last_day_curr, once computed
    last_day_prev,  \* set_dates: last_day_prev, once computed
    temp_data,      \* TEMP_DATA_DIR: whether it exists and what is in it
    path_kind,      \* sac_path, reserva_path, eep_path, upl_path: what kind
                    \* of path each one is
    local_path,     \* sac_local, res_local, eep_local, upl_local
    summary_csv,    \* the report: the rows of resumen_expansion_upl_ha.csv
    strict_csv,     \* the report: resumen_expansion_upl_ha_strict.csv
    top_upls,       \* the report: TOP_UPLS
    file_crs,       \* the CRS each dataset on disk is stored in
    frame_crs,      \* the CRS each GeoDataFrame is tagged with
    ops             \* the overlay, area and buffer computations done so far,
                    \* each with the CRS of its operands

gcvars == <<input, gdf, cluster_id, i, current, members, changed, calls,
            prev_partition, top>>

runvars == <<run, aborted>>

mnvars == <<mosaic, dw, outputs, invoked>>

bufvars == <<buffer, save_summary, cell_m2, resumen_buffer, stats_dir,
             returned>>

plvars == <<data, nonpoly, sac, res, eep, upl, files, results, features,
            gdf_inter, gdf_no, inter_upl, nointer_upl, resumen, raised,
            runvars>>

dtvars == <<anio, mes, last_day_curr, last_day_prev>>

tmpvars == <<temp_data, path_kind, local_path>>

repvars == <<summary_csv, strict_csv, top_upls>>

crsvars == <<file_crs, frame_crs, ops>>

auxvars == <<dtvars, tmpvars, repvars, crsvars>>

vars == <<gcvars, plvars, mnvars, bufvars, auxvars, pc>>

-----------------------------------------------------------------------------
(* Bounds of the growth-cluster inputs *)

MaxFeatures == 3

\* the cell positions the input geometries are drawn from
Cells == 0..4

\* the input geometries: empty, single cells, and one two-cell polygon that
\* overlaps the cell 2
Geoms == {{}, {0}, {2}, {4}, {1, 2}}

-----------------------------------------------------------------------------
(* Geometry primitives (shapely / geopandas) *)

buffer_distance == 500

\* side of one grid cell of the cluster model, in metres: one buffer distance
CellSize == buffer_distance

Abs(x) == IF x < 0 THEN -x ELSE x

\* geometry.buffer(d): every cell within d metres of the geometry; the buffer
\* of the empty geometry is empty
Buffer(geom, d) ==
    {c \in (0 - (d \div CellSize))..(4 + (d \div CellSize)) :
        \E g \in geom : Abs(c - g) * CellSize <= d}

\* a.intersects(b): false whenever one of the two is empty
Intersects(a, b) == a \cap b # {}

\* geometry.area, in square metres
Area(geom) == Cardinality(geom) * CellSize * CellSize

\* area / 10000
AreaHa(geom) == Area(geom) \div 10000

\* shapely.ops.unary_union of a set of geometries
unary_union(geoms) == UNION geoms

-----------------------------------------------------------------------------
(* create_growth_clusters, src/src/utils.py:333-373 *)

\* lines 340-345: read, buffer, reset_index, cluster_id = -1
ReadAndBuffer(inp) ==
    [j \in DOMAIN inp |->
        [fid |-> inp[j].fid,
         geometry |-> inp[j].geometry,
         geometry_buffer |-> Buffer(inp[j].geometry, buffer_distance),
         cluster_id |-> -1]]

\* a plausible slip of line 359: the unassigned filter is forgotten
OverlapsNoFilter(g, cur) ==
    {j \in DOMAIN g : Intersects(g[j].geometry_buffer, cur)}

\* line 359: gdf[gdf.geometry_buffer.intersects(current) & (gdf.cluster_id == -1)]
Overlaps(g, cur) ==
    {j \in DOMAIN g :
        Intersects(g[j].geometry_buffer, cur) /\ g[j].cluster_id = -1}

\* a plausible slip of line 364: the original geometry instead of the buffer
UnionOfMemberGeometries(g, mem) ==
    unary_union({g[m].geometry : m \in mem})

\* line 364: unary_union(gdf.loc[members, "geometry_buffer"])
UnionOfMemberBuffers(g, mem) ==
    unary_union({g[m].geometry_buffer : m \in mem})

\* a plausible slip of line 369: the area stays in square metres
AreaColumnM2(g) ==
    [j \in DOMAIN g |->
        [fid |-> g[j].fid, geometry |-> g[j].geometry,
         cluster_id |-> g[j].cluster_id, area_ha |-> Area(g[j].geometry)]]

\* lines 369-370: area_ha of every row from its own geometry, buffer dropped
AreaColumn(g) ==
    [j \in DOMAIN g |->
        [fid |-> g[j].fid, geometry |-> g[j].geometry,
         cluster_id |-> g[j].cluster_id, area_ha |-> AreaHa(g[j].geometry)]]

\* the partition of the features a returned frame stands for
Partition(g) ==
    {{g[j].fid : j \in {k \in DOMAIN g : g[k].cluster_id = g[m].cluster_id}} :
        m \in DOMAIN g}

\* all orderings of n rows
Perms(n) ==
    {p \in [0..(n - 1) -> 0..(n - 1)] :
        \A a, b \in 0..(n - 1) : a # b => p[a] # p[b]}

\* set_dates is not running
DatesIdle ==
    /\ anio = 0
    /\ mes = 0
    /\ last_day_curr = <<>>
    /\ last_day_prev = <<>>

\* create_growth_clusters is not running
ClustersIdle ==
    /\ input = <<>>
    /\ gdf = <<>>
    /\ cluster_id = 0
    /\ i = 0
    /\ current = {}
    /\ members = {}
    /\ changed = FALSE
    /\ calls = 0
    /\ prev_partition = {}
    /\ top = <<>>

\* no layer is being downloaded or cleaned up
TmpIdle ==
    /\ temp_data = <<>>
    /\ path_kind = <<>>
    /\ local_path = <<>>

\* no report is being built
ReportIdle ==
    /\ summary_csv = <<>>
    /\ strict_csv = <<>>
    /\ top_upls = <<>>

\* no CRS is being followed
CrsIdle ==
    /\ file_crs = <<>>
    /\ frame_crs = <<>>
    /\ ops = {}

\* none of the helpers around the pipeline is running
AuxIdle ==
    /\ DatesIdle
    /\ TmpIdle
    /\ ReportIdle
    /\ CrsIdle

\* main with both labels is not running
MainIdle ==
    /\ mosaic = <<>>
    /\ dw = <<>>
    /\ outputs = <<>>
    /\ invoked = {}

\* utils.calculate_expansion_areas is not running
BufferIdle ==
    /\ buffer = [path |-> "none", geometry |-> {}]
    /\ save_summary = FALSE
    /\ cell_m2 = 0
    /\ resumen_buffer = [bound |-> FALSE, rows |-> {}]
    /\ stats_dir = <<>>
    /\ returned = [bound |-> FALSE, resumen_upl |-> {},
                   resumen_buffer |-> {}]

\* the pipeline of main is not running
PipelineIdle ==
    /\ data = <<>>
    /\ nonpoly = {}
    /\ sac = [columns |-> {}, rows |-> {}]
    /\ res = [columns |-> {}, rows |-> {}]
    /\ eep = [columns |-> {}, rows |-> {}]
    /\ upl = [columns |-> {}, rows |-> {}]
    /\ files = [f \in {"intersections", "no_intersections", "resumen"} |->
                    [exists |-> FALSE, columns |-> {}, rows |-> {}]]
    /\ results = {}
    /\ features = {}
    /\ gdf_inter = [columns |-> {}, rows |-> {}]
    /\ gdf_no = [columns |-> {}, rows |-> {}]
    /\ inter_upl = [columns |-> {}, rows |-> {}]
    /\ nointer_upl = [columns |-> {}, rows |-> {}]
    /\ resumen = {}
    /\ raised = "none"
    /\ run = 1
    /\ aborted = FALSE

InitGC ==
    /\ AuxIdle
    /\ \E n \in 0..MaxFeatures : \E geoms \in [0..(n - 1) -> Geoms] :
          input = [j \in 0..(n - 1) |-> [fid |-> j, geometry |-> geoms[j]]]
    /\ gdf = ReadAndBuffer(input)
    /\ cluster_id = 0
    /\ i = 0
    /\ current = {}
    /\ members = {}
    /\ changed = FALSE
    /\ pc = "gc_for"
    /\ calls = 1
    /\ prev_partition = {}
    /\ top = <<>>
    /\ PipelineIdle
    /\ MainIdle
    /\ BufferIdle

\* lines 348-350: the row already has a cluster, continue
GC_Skip ==
    /\ pc = "gc_for"
    /\ i < Cardinality(DOMAIN gdf)
    /\ gdf[i].cluster_id # -1
    /\ i' = i + 1
    /\ UNCHANGED <<input, gdf, cluster_id, current, members, changed, pc,
                   calls, prev_partition, top>>
    /\ UNCHANGED <<plvars, mnvars, bufvars>>
    /\ UNCHANGED auxvars

\* lines 352-355: open a new cluster seeded with row i
GC_NewCluster ==
    /\ pc = "gc_for"
    /\ i < Cardinality(DOMAIN gdf)
    /\ gdf[i].cluster_id = -1
    /\ cluster_id' = cluster_id + 1
    /\ current' = gdf[i].geometry_buffer
    /\ members' = {i}
    /\ changed' = TRUE
    /\ pc' = "gc_while"
    /\ UNCHANGED <<input, gdf, i, calls, prev_partition, top>>
    /\ UNCHANGED <<plvars, mnvars, bufvars>>
    /\ UNCHANGED auxvars

\* lines 358-364: one pass of the while loop that absorbs rows.  members is
\* a list in the code; only the set of its elements is ever used.
GC_Absorb ==
    /\ pc = "gc_while"
    /\ changed
    /\ LET idxs == Overlaps(gdf, current)
           g2 == [j \in DOMAIN gdf |->
                    IF j \in idxs
                    THEN [gdf[j] EXCEPT !.cluster_id = cluster_id]
                    ELSE gdf[j]]
       IN /\ idxs # {}
          /\ gdf' = g2
          /\ members' = members \cup idxs
          /\ current' = UnionOfMemberBuffers(g2, members \cup idxs)
    /\ UNCHANGED <<input, cluster_id, i, changed, pc, calls, prev_partition,
                   top>>
    /\ UNCHANGED <<plvars, mnvars, bufvars>>
    /\ UNCHANGED auxvars

\* lines 365-366: nothing absorbed, the loop ends and the for loop advances
GC_FixedPoint ==
    /\ pc = "gc_while"
    /\ changed
    /\ Overlaps(gdf, current) = {}
    /\ changed' = FALSE
    /\ i' = i + 1
    /\ pc' = "gc_for"
    /\ UNCHANGED <<input, gdf, cluster_id, current, members, calls,
                   prev_partition, top>>
    /\ UNCHANGED <<plvars, mnvars, bufvars>>
    /\ UNCHANGED auxvars

\* lines 368-373: the for loop is over; area column, buffer dropped, return
GC_Finish ==
    /\ pc = "gc_for"
    /\ i >= Cardinality(DOMAIN gdf)
    /\ gdf' = AreaColumn(gdf)
    /\ pc' = "gc_done"
    /\ UNCHANGED <<input, cluster_id, i, current, members, changed, calls,
                   prev_partition, top>>
    /\ UNCHANGED <<plvars, mnvars, bufvars>>
    /\ UNCHANGED auxvars

\* a second call of create_growth_clusters (lines 340-346) on the same
\* features in another file order
GC_Call ==
    /\ pc = "gc_done"
    /\ calls = 1
    /\ \E p \in Perms(Cardinality(DOMAIN input)) :
          /\ input' = [j \in DOMAIN input |-> input[p[j]]]
          /\ gdf' = ReadAndBuffer([j \in DOMAIN input |-> input[p[j]]])
    /\ prev_partition' = Partition(gdf)
    /\ calls' = calls + 1
    /\ cluster_id' = 0
    /\ i' = 0
    /\ current' = {}
    /\ members' = {}
    /\ changed' = FALSE
    /\ top' = <<>>
    /\ pc' = "gc_for"
    /\ UNCHANGED <<plvars, mnvars, bufvars>>
    /\ UNCHANGED auxvars

-----------------------------------------------------------------------------
(* top_clusters, src/src/maps.py:17-25 *)

top_n == 10

\* lines 22-23: gdf.dissolve(by="cluster_id") and the area of each dissolved
\* geometry / 10000
Dissolve(g) ==
    {[cluster_id |-> k,
      geometry |-> unary_union({g[j].geometry :
                        j \in {m \in DOMAIN g : g[m].cluster_id = k}}),
      area_ha |-> AreaHa(unary_union({g[j].geometry :
                        j \in {m \in DOMAIN g : g[m].cluster_id = k}}))] :
        k \in {g[j].cluster_id : j \in DOMAIN g}}

\* line 24: sort_values("area_ha", ascending=False); rows of equal area keep
\* the order of dissolve (cluster_id ascending)
RECURSIVE SortByAreaDesc(_)
SortByAreaDesc(rows) ==
    IF rows = {} THEN <<>>
    ELSE LET r == CHOOSE x \in rows :
                    \A y \in rows :
                        \/ x.area_ha > y.area_ha
                        \/ (x.area_ha = y.area_ha /\ x.cluster_id <= y.cluster_id)
         IN <<r>> \o SortByAreaDesc(rows \ {r})

\* line 24: .head(top_n)
HeadRows(s, n) == SubSeq(s, 1, IF Len(s) < n THEN Len(s) ELSE n)

TopClusters ==
    /\ pc = "gc_done"
    /\ top = <<>>
    /\ top' = HeadRows(SortByAreaDesc(Dissolve(gdf)), top_n)
    /\ UNCHANGED <<input, gdf, cluster_id, i, current, members, changed, pc,
                   calls, prev_partition>>
    /\ UNCHANGED <<plvars, mnvars, bufvars>>
    /\ UNCHANGED auxvars

-----------------------------------------------------------------------------
(* Inputs of the pipeline: the raster, the restriction layers, the zones *)

RasterWidth == 4

\* the pixels of the one-row raster; pixel p covers the grid cell p
Pixels == 0..(RasterWidth - 1)

\* the restriction layers read by create_intersections: no feature, or one
\* feature covering these cells
SacGeoms == {{}, {0, 1}, {1, 2}}
ResGeoms == {{}, {1, 2}}
EepGeoms == {{}, {1}}

\* the attribute columns a restriction layer may carry
LayerColumns == {{"geometry"}, {"NOMBRE", "geometry"}}

Layer(name, cols, geom) ==
    [columns |-> cols,
     rows |-> IF geom = {} THEN {}
              ELSE {[layer |-> name, id |-> 0, geometry |-> geom]}]

\* the zone datasets: two zones that split the raster, or two polygons of
\* one zone that leave pixel 1 outside every zone
ZoneRows ==
    {{[id |-> 0, name |-> "A", geometry |-> {0, 1}],
      [id |-> 1, name |-> "B", geometry |-> Pixels \ {0, 1}]},
     {[id |-> 0, name |-> "A", geometry |-> {0}],
      [id |-> 1, name |-> "A", geometry |-> Pixels \ {0, 1}]}}

\* the columns of the zone dataset: the zone name is stored under NOMBRE, or
\* under another column
ZoneColumns == {{"NOMBRE", "geometry"}, {"CODIGO_UPL", "geometry"}}

-----------------------------------------------------------------------------
(* rasterio.features.shapes and geopandas.overlay *)

\* pixel p is the first pixel of a run of one positive value
RunStart(d, p) == d[p] > 0 /\ (p = 0 \/ d[p - 1] # d[p])

\* the last pixel of the run that holds pixel p
RECURSIVE RunEnd(_, _)
RunEnd(d, p) ==
    IF (p + 1) \in DOMAIN d /\ d[p + 1] = d[p] THEN RunEnd(d, p + 1) ELSE p

\* shapes(data, mask=data > 0): one shape per connected region of equal
\* positive value, with the geometry type the vectorizer reports
Shapes(d, np) ==
    {[geometry |-> p..RunEnd(d, p),
      value |-> d[p],
      type |-> IF p \in np THEN "LineString" ELSE "Polygon"] :
        p \in {q \in DOMAIN d : RunStart(d, q)}}

\* the columns of gpd.overlay(df1, df2): a column of both frames is
\* suffixed _1 and _2
OverlayColumns(c1, c2) ==
    {"geometry"}
        \cup ((c1 \ c2) \cup (c2 \ c1))
        \cup {c \o "_1" : c \in (c1 \cap c2) \ {"geometry"}}
        \cup {c \o "_2" : c \in (c1 \cap c2) \ {"geometry"}}

\* gpd.overlay(df1, df2, how="intersection"): one row per pair of rows whose
\* geometries share area, with the attributes of both
OverlayIntersection(df1, df2) ==
    [columns |-> OverlayColumns(df1.columns, df2.columns),
     rows |-> {[left |-> a, right |-> b,
                geometry |-> a.geometry \cap b.geometry] :
                  <<a, b>> \in {ab \in df1.rows \X df2.rows :
                                  ab[1].geometry \cap ab[2].geometry # {}}}]

\* a plausible slip of the difference: a row of df1 that is not wholly covered
\* is kept whole instead of being clipped
OverlayDifferenceKeepWhole(df1, df2) ==
    [columns |-> df1.columns,
     rows |-> {x \in df1.rows :
                 x.geometry \ UNION {b.geometry : b \in df2.rows} # {}}]

\* a plausible slip of the difference: a row of df1 that a row of df2 touches
\* is dropped whole instead of being clipped
OverlayDifferenceDropTouched(df1, df2) ==
    [columns |-> df1.columns,
     rows |-> {x \in df1.rows :
                 x.geometry \cap UNION {b.geometry : b \in df2.rows} = {}}]

\* gpd.overlay(df1, df2, how="difference"): the part of each row of df1 that
\* no row of df2 covers; rows left with nothing are dropped
OverlayDifference(df1, df2) ==
    [columns |-> df1.columns,
     rows |-> {[a EXCEPT !.geometry =
                    a.geometry \ UNION {b.geometry : b \in df2.rows}] :
                  a \in {x \in df1.rows :
                           x.geometry \ UNION {b.geometry : b \in df2.rows}
                               # {}}}]

\* a plausible slip of the concatenation: rows that repeat the geometry of a
\* row of the same expansion polygon are dropped
ConcatDropDuplicates(frames) ==
    [columns |-> UNION {f.columns : f \in frames},
     rows |-> {r \in UNION {f.rows : f \in frames} :
                 r = CHOOSE x \in UNION {f.rows : f \in frames} :
                        x.left = r.left /\ x.geometry = r.geometry}]

\* pd.concat of frames
Concat(frames) ==
    [columns |-> UNION {f.columns : f \in frames},
     rows |-> UNION {f.rows : f \in frames}]

\* a plausible slip of the writer: a frame without rows leaves no file
WriteFileUnlessEmpty(df) ==
    [exists |-> df.rows # {}, columns |-> df.columns, rows |-> df.rows]

\* GeoDataFrame.to_file
WriteFile(df) == [exists |-> TRUE, columns |-> df.columns, rows |-> df.rows]

\* gpd.read_file of a written file: a file without features has no attribute
\* columns
ReadFile(f) ==
    [columns |-> IF f.rows = {} THEN {"geometry"} ELSE f.columns,
     rows |-> f.rows]

\* gpd.GeoDataFrame(geometry=[], crs=src.crs)
EmptyFrame == [columns |-> {"geometry"}, rows |-> {}]

\* a plausible slip of line 96: the empty gdf_inter is written in the place of
\* gdf_newurban
UnintersectedIsInter(gdf_newurban, inter) == inter

\* line 96: with no intersection the frame written as no_intersections is
\* gdf_newurban itself
Unintersected(gdf_newurban, inter) == gdf_newurban

-----------------------------------------------------------------------------
(* create_intersections, src/src/stats_utils.py:11-101 *)

\* a plausible slip of line 33: line geometries pass the filter too
IsPolygonalOrLine(shape) ==
    shape.type \in {"Polygon", "MultiPolygon", "LineString"}

\* line 33: geom and geom.get("type") in ("Polygon", "MultiPolygon")
IsPolygonal(shape) == shape.type \in {"Polygon", "MultiPolygon"}

\* lines 31-34: the features kept from the vectorized shapes
PolygonalFeatures(shapes) ==
    {[geometry |-> r.geometry, value |-> r.value] :
        r \in {x \in shapes : IsPolygonal(x)}}

\* line 43: gdf_newurban
NewUrbanFrame(feats) == [columns |-> {"geometry", "value"}, rows |-> feats]

InitPL ==
    /\ AuxIdle
    /\ data \in [Pixels -> {0, 1}]
    /\ nonpoly \in {np \in SUBSET Pixels :
                      /\ Cardinality(np) <= 1
                      /\ \A p \in np : RunStart(data, p)}
    /\ \E cols \in LayerColumns :
          /\ sac \in {Layer("sac", cols, g) : g \in SacGeoms}
          /\ res \in {Layer("res", cols, g) : g \in ResGeoms}
          /\ eep \in {Layer("eep", cols, g) : g \in EepGeoms}
    /\ upl \in {[columns |-> c, rows |-> z] : c \in ZoneColumns, z \in ZoneRows}
    /\ files = [f \in {"intersections", "no_intersections", "resumen"} |->
                    [exists |-> FALSE, columns |-> {}, rows |-> {}]]
    /\ results = {}
    /\ features = {}
    /\ gdf_inter = [columns |-> {}, rows |-> {}]
    /\ gdf_no = [columns |-> {}, rows |-> {}]
    /\ inter_upl = [columns |-> {}, rows |-> {}]
    /\ nointer_upl = [columns |-> {}, rows |-> {}]
    /\ resumen = {}
    /\ raised = "none"
    /\ run = 1
    /\ aborted = FALSE
    /\ MainIdle
    /\ BufferIdle
    /\ pc = "main_inter"
    /\ input = <<>>
    /\ gdf = <<>>
    /\ cluster_id = 0
    /\ i = 0
    /\ current = {}
    /\ members = {}
    /\ changed = FALSE
    /\ calls = 0
    /\ prev_partition = {}
    /\ top = <<>>

\* main.py:85-86: no intersections file of the label yet:
\* create_intersections is called
Main_CallIntersections ==
    /\ pc = "main_inter"
    /\ ~files["intersections"].exists
    /\ pc' = "ci_open"
    /\ UNCHANGED <<gcvars, plvars, mnvars, bufvars>>
    /\ UNCHANGED auxvars

\* main.py:85: the intersections file of the label exists:
\* create_intersections is not called
Main_SkipIntersections ==
    /\ pc = "main_inter"
    /\ files["intersections"].exists
    /\ pc' = "ci_skipped"
    /\ UNCHANGED <<gcvars, plvars, mnvars, bufvars>>
    /\ UNCHANGED auxvars

\* the process is killed inside create_intersections, between two of its
\* steps: what it has written stays on disk
Main_Abort ==
    /\ run = 1
    /\ pc \in {"ci_open", "ci_results", "ci_features", "ci_inter"}
    /\ aborted' = TRUE
    /\ pc' = "aborted"
    /\ UNCHANGED <<data, nonpoly, sac, res, eep, upl, files, results, features,
                   gdf_inter, gdf_no, inter_upl, nointer_upl, resumen, raised,
                   run>>
    /\ UNCHANGED <<gcvars, mnvars, bufvars>>
    /\ UNCHANGED auxvars

\* main is started again for the same month, after a run that was aborted,
\* ended in an error or completed: the files stay, the process state is new
Main_NextRun ==
    /\ run = 1
    /\ pc \in {"aborted", "raised", "cea_ret"}
    /\ run' = 2
    /\ results' = {}
    /\ features' = {}
    /\ gdf_inter' = [columns |-> {}, rows |-> {}]
    /\ gdf_no' = [columns |-> {}, rows |-> {}]
    /\ inter_upl' = [columns |-> {}, rows |-> {}]
    /\ nointer_upl' = [columns |-> {}, rows |-> {}]
    /\ resumen' = {}
    /\ raised' = "none"
    /\ pc' = "main_inter"
    /\ UNCHANGED <<data, nonpoly, sac, res, eep, upl, files, aborted>>
    /\ UNCHANGED <<gcvars, mnvars, bufvars>>
    /\ UNCHANGED auxvars

\* lines 19-22: open the raster and vectorize the positive pixels
CI_Open ==
    /\ pc = "ci_open"
    /\ results' = Shapes(data, nonpoly)
    /\ pc' = "ci_results"
    /\ UNCHANGED <<data, nonpoly, sac, res, eep, upl, files, features,
                   gdf_inter, gdf_no, inter_upl, nointer_upl, resumen, raised>>
    /\ UNCHANGED <<gcvars, runvars, mnvars, bufvars>>
    /\ UNCHANGED auxvars

\* lines 25-29: no shape at all: an empty intersections file, return
CI_NoResults ==
    /\ pc = "ci_results"
    /\ results = {}
    /\ files' = [files EXCEPT !["intersections"] = WriteFile(EmptyFrame)]
    /\ pc' = "ci_ret"
    /\ UNCHANGED <<data, nonpoly, sac, res, eep, upl, results, features,
                   gdf_inter, gdf_no, inter_upl, nointer_upl, resumen, raised>>
    /\ UNCHANGED <<gcvars, runvars, mnvars, bufvars>>
    /\ UNCHANGED auxvars

\* lines 31-34: keep the polygonal shapes
CI_Filter ==
    /\ pc = "ci_results"
    /\ results # {}
    /\ features' = PolygonalFeatures(results)
    /\ pc' = "ci_features"
    /\ UNCHANGED <<data, nonpoly, sac, res, eep, upl, files, results,
                   gdf_inter, gdf_no, inter_upl, nointer_upl, resumen, raised>>
    /\ UNCHANGED <<gcvars, runvars, mnvars, bufvars>>
    /\ UNCHANGED auxvars

\* lines 36-41: no polygonal shape: an empty intersections file, return
CI_NoFeatures ==
    /\ pc = "ci_features"
    /\ features = {}
    /\ files' = [files EXCEPT !["intersections"] = WriteFile(EmptyFrame)]
    /\ pc' = "ci_ret"
    /\ UNCHANGED <<data, nonpoly, sac, res, eep, upl, results, features,
                   gdf_inter, gdf_no, inter_upl, nointer_upl, resumen, raised>>
    /\ UNCHANGED <<gcvars, runvars, mnvars, bufvars>>
    /\ UNCHANGED auxvars

\* lines 43-92: load the three layers, overlay each with gdf_newurban,
\* concatenate and write the intersections file
CI_Overlay ==
    /\ pc = "ci_features"
    /\ features # {}
    /\ gdf_inter' = Concat({OverlayIntersection(NewUrbanFrame(features), sac),
                            OverlayIntersection(NewUrbanFrame(features), res),
                            OverlayIntersection(NewUrbanFrame(features), eep)})
    /\ files' = [files EXCEPT !["intersections"] = WriteFile(gdf_inter')]
    /\ pc' = "ci_inter"
    /\ UNCHANGED <<data, nonpoly, sac, res, eep, upl, results, features,
                   gdf_no, inter_upl, nointer_upl, resumen, raised>>
    /\ UNCHANGED <<gcvars, runvars, mnvars, bufvars>>
    /\ UNCHANGED auxvars

\* lines 94-97: no intersection: gdf_newurban is the no_intersections file
CI_NoInter ==
    /\ pc = "ci_inter"
    /\ gdf_inter.rows = {}
    /\ files' = [files EXCEPT
                    !["no_intersections"] =
                        WriteFile(Unintersected(NewUrbanFrame(features),
                                                gdf_inter))]
    /\ pc' = "ci_ret"
    /\ UNCHANGED <<data, nonpoly, sac, res, eep, upl, results, features,
                   gdf_inter, gdf_no, inter_upl, nointer_upl, resumen, raised>>
    /\ UNCHANGED <<gcvars, runvars, mnvars, bufvars>>
    /\ UNCHANGED auxvars

\* lines 99-101: the difference is the no_intersections file
CI_Difference ==
    /\ pc = "ci_inter"
    /\ gdf_inter.rows # {}
    /\ files' = [files EXCEPT
                    !["no_intersections"] =
                        WriteFile(OverlayDifference(NewUrbanFrame(features),
                                                    gdf_inter))]
    /\ pc' = "ci_ret"
    /\ UNCHANGED <<data, nonpoly, sac, res, eep, upl, results, features,
                   gdf_inter, gdf_no, inter_upl, nointer_upl, resumen, raised>>
    /\ UNCHANGED <<gcvars, runvars, mnvars, bufvars>>
    /\ UNCHANGED auxvars

-----------------------------------------------------------------------------
(* calculate_expansion_areas, src/src/stats_utils.py:104-150 *)

\* a plausible slip of line 116: the check only asks for some column
HasAnyColumn(cols) == cols # {}

\* line 116: "NOMBRE" in gdf_upl.columns
HasNombre(cols) == "NOMBRE" \in cols

\* the sum of area_ha over a set of overlay rows (lines 137-138, 141-142)
RECURSIVE SumAreaHa(_)
SumAreaHa(rows) ==
    IF rows = {} THEN 0
    ELSE LET r == CHOOSE x \in rows : TRUE
         IN AreaHa(r.geometry) + SumAreaHa(rows \ {r})

\* a plausible slip of lines 141-142: the rows of a zone are dissolved before
\* their area is taken
GroupSumDissolved(df) ==
    [n \in {r.left.name : r \in df.rows} |->
        AreaHa(UNION {r.geometry : r \in {x \in df.rows : x.left.name = n}})]

\* lines 141-142: groupby("NOMBRE")["area_ha"].sum() of a zone overlay: the
\* zone name of a row is the NOMBRE of its zone
GroupSum(df) ==
    [n \in {r.left.name : r \in df.rows} |->
        SumAreaHa({r \in df.rows : r.left.name = n})]

\* a plausible slip of line 143: how="inner"
MergeInner(a, b) ==
    {[NOMBRE |-> n, interseccion_ha |-> a[n], no_interseccion_ha |-> b[n]] :
        n \in DOMAIN a \cap DOMAIN b}

\* lines 141-143: merge(..., on="NOMBRE", how="outer").fillna(0)
MergeOuter(a, b) ==
    {[NOMBRE |-> n,
      interseccion_ha |-> IF n \in DOMAIN a THEN a[n] ELSE 0,
      no_interseccion_ha |-> IF n \in DOMAIN b THEN b[n] ELSE 0] :
        n \in DOMAIN a \cup DOMAIN b}

\* a plausible slip of line 145: the total leaves one column out
TotalColumnInterOnly(rows) ==
    {[NOMBRE |-> r.NOMBRE,
      interseccion_ha |-> r.interseccion_ha,
      no_interseccion_ha |-> r.no_interseccion_ha,
      total_ha |-> r.interseccion_ha] : r \in rows}

\* line 145: total_ha = interseccion_ha + no_interseccion_ha
TotalColumn(rows) ==
    {[NOMBRE |-> r.NOMBRE,
      interseccion_ha |-> r.interseccion_ha,
      no_interseccion_ha |-> r.no_interseccion_ha,
      total_ha |-> r.interseccion_ha + r.no_interseccion_ha] : r \in rows}

\* lines 107-111: one of the two files of the label is missing, read_file
\* raises
CEA_ReadFails ==
    /\ pc \in {"ci_ret", "ci_skipped"}
    /\ ~(files["no_intersections"].exists /\ files["intersections"].exists)
    /\ raised' = "DataSourceError"
    /\ pc' = "raised"
    /\ UNCHANGED <<data, nonpoly, sac, res, eep, upl, files, results, features,
                   gdf_inter, gdf_no, inter_upl, nointer_upl, resumen>>
    /\ UNCHANGED <<gcvars, runvars, mnvars, bufvars>>
    /\ UNCHANGED auxvars

\* lines 107-114: read the two files of the label and the zones
CEA_Read ==
    /\ pc \in {"ci_ret", "ci_skipped"}
    /\ files["no_intersections"].exists
    /\ files["intersections"].exists
    /\ gdf_no' = ReadFile(files["no_intersections"])
    /\ gdf_inter' = ReadFile(files["intersections"])
    /\ pc' = "cea_check"
    /\ UNCHANGED <<data, nonpoly, sac, res, eep, upl, files, results, features,
                   inter_upl, nointer_upl, resumen, raised>>
    /\ UNCHANGED <<gcvars, runvars, mnvars, bufvars>>
    /\ UNCHANGED auxvars

\* lines 116-117: the zones have no NOMBRE column, ValueError
CEA_MissingNombre ==
    /\ pc = "cea_check"
    /\ ~HasNombre(upl.columns)
    /\ raised' = "ValueError"
    /\ pc' = "raised"
    /\ UNCHANGED <<data, nonpoly, sac, res, eep, upl, files, results, features,
                   gdf_inter, gdf_no, inter_upl, nointer_upl, resumen>>
    /\ UNCHANGED <<gcvars, runvars, mnvars, bufvars>>
    /\ UNCHANGED auxvars

\* lines 119-138: overlay the zones with the two collections
CEA_Overlay ==
    /\ pc = "cea_check"
    /\ HasNombre(upl.columns)
    /\ inter_upl' = OverlayIntersection(upl, gdf_inter)
    /\ nointer_upl' = OverlayIntersection(upl, gdf_no)
    /\ pc' = "cea_summary"
    /\ UNCHANGED <<data, nonpoly, sac, res, eep, upl, files, results, features,
                   gdf_inter, gdf_no, resumen, raised>>
    /\ UNCHANGED <<gcvars, runvars, mnvars, bufvars>>
    /\ UNCHANGED auxvars

\* lines 141-142: an overlay without a column named NOMBRE, groupby raises
CEA_KeyError ==
    /\ pc = "cea_summary"
    /\ ~("NOMBRE" \in inter_upl.columns /\ "NOMBRE" \in nointer_upl.columns)
    /\ raised' = "KeyError"
    /\ pc' = "raised"
    /\ UNCHANGED <<data, nonpoly, sac, res, eep, upl, files, results, features,
                   gdf_inter, gdf_no, inter_upl, nointer_upl, resumen>>
    /\ UNCHANGED <<gcvars, runvars, mnvars, bufvars>>
    /\ UNCHANGED auxvars

\* lines 140-150: the per-zone summary, written as csv and returned
CEA_Summarise ==
    /\ pc = "cea_summary"
    /\ "NOMBRE" \in inter_upl.columns
    /\ "NOMBRE" \in nointer_upl.columns
    /\ resumen' = TotalColumn(MergeOuter(GroupSum(inter_upl),
                                         GroupSum(nointer_upl)))
    /\ files' = [files EXCEPT
                    !["resumen"] =
                        [exists |-> TRUE,
                         columns |-> {"NOMBRE", "interseccion_ha",
                                      "no_interseccion_ha", "total_ha"},
                         rows |-> resumen']]
    /\ pc' = "cea_ret"
    /\ UNCHANGED <<data, nonpoly, sac, res, eep, upl, results, features,
                   gdf_inter, gdf_no, inter_upl, nointer_upl, raised>>
    /\ UNCHANGED <<gcvars, runvars, mnvars, bufvars>>
    /\ UNCHANGED auxvars

NextPL ==
    \/ Main_CallIntersections
    \/ Main_SkipIntersections
    \/ Main_Abort
    \/ Main_NextRun
    \/ CI_Open
    \/ CI_NoResults
    \/ CI_Filter
    \/ CI_NoFeatures
    \/ CI_Overlay
    \/ CI_NoInter
    \/ CI_Difference
    \/ CEA_ReadFails
    \/ CEA_Read
    \/ CEA_MissingNombre
    \/ CEA_Overlay
    \/ CEA_KeyError
    \/ CEA_Summarise

SpecPL == InitPL /\ [][NextPL]_vars

-----------------------------------------------------------------------------
(* main with its two labels, src/main.py:57-94: each call is one step *)

\* main.py:61-62, 82-83: the two labels, in the order main handles them
Labels == <<"new_urban", "new_urban_strict">>

\* main.py:67 and 75: before.lt(0.2), in percent
before_lt == 20

\* a plausible slip of main.py:67 and 75: the two thresholds change places
current_gt_swapped == [new_urban |-> 70, new_urban_strict |-> 50]

\* main.py:67 and 75: current.gt(0.5) and current.gt(0.7), in percent
current_gt == [new_urban |-> 50, new_urban_strict |-> 70]

\* the built probabilities <<before, current>> of a pixel, in percent: new
\* built-up above both thresholds, above the first one only, built before
PixelLevels == {<<10, 80>>, <<10, 60>>, <<30, 80>>}

\* main.py:67 and 75: before.lt(0.2).And(current.gt(threshold)), as exported
\* by export_image
NewUrbanImage(m, label) ==
    [p \in DOMAIN m |->
        IF m[p][1] < before_lt /\ m[p][2] > current_gt[label] THEN 1 ELSE 0]

\* a plausible slip of main.py:82-83: the file main tests is the
\* no_intersections file
inter_file_no == "no_intersections"

\* main.py:82-83: the file main tests before create_intersections is the
\* intersections file of the label
inter_file == "intersections"

\* create_intersections(<label>.tif, ...) as one call: the files of the label
\* once it has returned (stats_utils.py:11-101)
CreateIntersections(d, np, fs) ==
    LET shapes == Shapes(d, np)
        feats == PolygonalFeatures(shapes)
        inter == Concat({OverlayIntersection(NewUrbanFrame(feats), sac),
                         OverlayIntersection(NewUrbanFrame(feats), res),
                         OverlayIntersection(NewUrbanFrame(feats), eep)})
    IN IF shapes = {} \/ feats = {}
       THEN [fs EXCEPT !["intersections"] = WriteFile(EmptyFrame)]
       ELSE IF inter.rows = {}
       THEN [fs EXCEPT
                !["intersections"] = WriteFile(inter),
                !["no_intersections"] =
                    WriteFile(Unintersected(NewUrbanFrame(feats), inter))]
       ELSE [fs EXCEPT
                !["intersections"] = WriteFile(inter),
                !["no_intersections"] =
                    WriteFile(OverlayDifference(NewUrbanFrame(feats), inter))]

\* calculate_expansion_areas(inter_dir, ...) of a label as one call: the
\* exception it raises, "none" if none, and the summary it writes and returns
\* (stats_utils.py:104-150)
CalculateExpansionAreas(fs) ==
    IF ~(fs["no_intersections"].exists /\ fs["intersections"].exists)
    THEN [raised |-> "DataSourceError", resumen |-> {}]
    ELSE IF ~HasNombre(upl.columns)
    THEN [raised |-> "ValueError", resumen |-> {}]
    ELSE LET iu == OverlayIntersection(upl, ReadFile(fs["intersections"]))
             nu == OverlayIntersection(upl, ReadFile(fs["no_intersections"]))
         IN IF ~("NOMBRE" \in iu.columns /\ "NOMBRE" \in nu.columns)
            THEN [raised |-> "KeyError", resumen |-> {}]
            ELSE [raised |-> "none",
                  resumen |-> TotalColumn(MergeOuter(GroupSum(iu),
                                                     GroupSum(nu)))]

\* the label a step of main works on
StepLabel ==
    [m_dw |-> Labels[1], m_dw_strict |-> Labels[2],
     m_inter |-> Labels[1], m_inter_strict |-> Labels[2],
     m_stats |-> Labels[1], m_stats_strict |-> Labels[2]]

\* the step of main that follows a step
StepAfter ==
    [m_dw |-> "m_dw_strict", m_dw_strict |-> "m_inter",
     m_inter |-> "m_inter_strict", m_inter_strict |-> "m_stats",
     m_stats |-> "m_stats_strict", m_stats_strict |-> "m_sentinel"]

InitMain ==
    /\ AuxIdle
    /\ mosaic \in [Pixels -> PixelLevels]
    /\ dw = [l \in {Labels[1], Labels[2]} |-> [exists |-> FALSE, data |-> <<>>]]
    /\ outputs = [l \in {Labels[1], Labels[2]} |->
                    [f \in {"intersections", "no_intersections", "resumen"} |->
                        [exists |-> FALSE, columns |-> {}, rows |-> {}]]]
    /\ invoked = {}
    /\ sac \in {Layer("sac", {"geometry"}, g) : g \in SacGeoms}
    /\ res \in {Layer("res", {"geometry"}, g) : g \in ResGeoms}
    /\ eep \in {Layer("eep", {"geometry"}, g) : g \in EepGeoms}
    /\ \E rows \in ZoneRows : upl = [columns |-> {"NOMBRE", "geometry"},
                                     rows |-> rows]
    /\ data = <<>>
    /\ nonpoly = {}
    /\ files = [f \in {"intersections", "no_intersections", "resumen"} |->
                    [exists |-> FALSE, columns |-> {}, rows |-> {}]]
    /\ results = {}
    /\ features = {}
    /\ gdf_inter = [columns |-> {}, rows |-> {}]
    /\ gdf_no = [columns |-> {}, rows |-> {}]
    /\ inter_upl = [columns |-> {}, rows |-> {}]
    /\ nointer_upl = [columns |-> {}, rows |-> {}]
    /\ resumen = {}
    /\ raised = "none"
    /\ run = 1
    /\ aborted = FALSE
    /\ BufferIdle
    /\ pc = "m_dw"
    /\ input = <<>>
    /\ gdf = <<>>
    /\ cluster_id = 0
    /\ i = 0
    /\ current = {}
    /\ members = {}
    /\ changed = FALSE
    /\ calls = 0
    /\ prev_partition = {}
    /\ top = <<>>

\* main.py:66-68 and 74-76: <label>.tif is not there: the mask is computed
\* and export_image downloads it
M_Export ==
    /\ pc \in {"m_dw", "m_dw_strict"}
    /\ ~dw[StepLabel[pc]].exists
    /\ dw' = [dw EXCEPT ![StepLabel[pc]] =
                 [exists |-> TRUE,
                  data |-> NewUrbanImage(mosaic, StepLabel[pc])]]
    /\ invoked' = invoked \cup {[run |-> run, call |-> "export_image",
                                 label |-> StepLabel[pc], completed |-> TRUE]}
    /\ pc' = StepAfter[pc]
    /\ UNCHANGED <<mosaic, outputs>>
    /\ UNCHANGED <<gcvars, plvars, bufvars>>
    /\ UNCHANGED auxvars

\* main.py:68 and 76: the download of export_image fails and the exception
\* ends the run
M_ExportFails ==
    /\ pc \in {"m_dw", "m_dw_strict"}
    /\ ~dw[StepLabel[pc]].exists
    /\ invoked' = invoked \cup {[run |-> run, call |-> "export_image",
                                 label |-> StepLabel[pc], completed |-> FALSE]}
    /\ raised' = "EEException"
    /\ pc' = "raised"
    /\ UNCHANGED <<mosaic, dw, outputs>>
    /\ UNCHANGED <<data, nonpoly, sac, res, eep, upl, files, results, features,
                   gdf_inter, gdf_no, inter_upl, nointer_upl, resumen, runvars>>
    /\ UNCHANGED <<gcvars, bufvars>>
    /\ UNCHANGED auxvars

\* main.py:70 and 78: <label>.tif is there, nothing is exported
M_SkipExport ==
    /\ pc \in {"m_dw", "m_dw_strict"}
    /\ dw[StepLabel[pc]].exists
    /\ pc' = StepAfter[pc]
    /\ UNCHANGED <<gcvars, plvars, mnvars, bufvars>>
    /\ UNCHANGED auxvars

\* main.py:85-88: the intersections file of the label is not there:
\* create_intersections is called on <label>.tif
M_CreateIntersections ==
    /\ pc \in {"m_inter", "m_inter_strict"}
    /\ ~outputs[StepLabel[pc]][inter_file].exists
    /\ outputs' = [outputs EXCEPT ![StepLabel[pc]] =
                      CreateIntersections(dw[StepLabel[pc]].data, {}, @)]
    /\ invoked' = invoked \cup {[run |-> run, call |-> "create_intersections",
                                 label |-> StepLabel[pc], completed |-> TRUE]}
    /\ pc' = StepAfter[pc]
    /\ UNCHANGED <<mosaic, dw>>
    /\ UNCHANGED <<gcvars, plvars, bufvars>>
    /\ UNCHANGED auxvars

\* main.py:85 and 87: the intersections file of the label is there,
\* create_intersections is not called
M_SkipIntersections ==
    /\ pc \in {"m_inter", "m_inter_strict"}
    /\ outputs[StepLabel[pc]][inter_file].exists
    /\ pc' = StepAfter[pc]
    /\ UNCHANGED <<gcvars, plvars, mnvars, bufvars>>
    /\ UNCHANGED auxvars

\* main.py:91-94: calculate_expansion_areas of the label returns and has
\* written the summary csv of the label
M_Stats ==
    /\ pc \in {"m_stats", "m_stats_strict"}
    /\ CalculateExpansionAreas(outputs[StepLabel[pc]]).raised = "none"
    /\ outputs' = [outputs EXCEPT ![StepLabel[pc]]["resumen"] =
                      [exists |-> TRUE,
                       columns |-> {"NOMBRE", "interseccion_ha",
                                    "no_interseccion_ha", "total_ha"},
                       rows |-> CalculateExpansionAreas(
                                    outputs[StepLabel[pc]]).resumen]]
    /\ pc' = StepAfter[pc]
    /\ UNCHANGED <<mosaic, dw, invoked>>
    /\ UNCHANGED <<gcvars, plvars, bufvars>>
    /\ UNCHANGED auxvars

\* main.py:91-94: calculate_expansion_areas of the label raises and the
\* exception ends the run
M_StatsRaises ==
    /\ pc \in {"m_stats", "m_stats_strict"}
    /\ CalculateExpansionAreas(outputs[StepLabel[pc]]).raised # "none"
    /\ raised' = CalculateExpansionAreas(outputs[StepLabel[pc]]).raised
    /\ pc' = "raised"
    /\ UNCHANGED <<data, nonpoly, sac, res, eep, upl, files, results, features,
                   gdf_inter, gdf_no, inter_upl, nointer_upl, resumen, runvars>>
    /\ UNCHANGED <<gcvars, mnvars, bufvars>>
    /\ UNCHANGED auxvars

\* main is started again for the same year and month: the files stay
M_NextRun ==
    /\ run = 1
    /\ pc \in {"m_sentinel", "raised"}
    /\ run' = 2
    /\ raised' = "none"
    /\ pc' = "m_dw"
    /\ UNCHANGED <<data, nonpoly, sac, res, eep, upl, files, results, features,
                   gdf_inter, gdf_no, inter_upl, nointer_upl, resumen, aborted>>
    /\ UNCHANGED <<gcvars, mnvars, bufvars>>
    /\ UNCHANGED auxvars

NextMain ==
    \/ M_Export
    \/ M_ExportFails
    \/ M_SkipExport
    \/ M_CreateIntersections
    \/ M_SkipIntersections
    \/ M_Stats
    \/ M_StatsRaises
    \/ M_NextRun

SpecMain == InitMain /\ [][NextMain]_vars

-----------------------------------------------------------------------------
(* calculate_expansion_areas with the buffer summary,
   src/src/utils.py:200-282 *)

\* the area of one grid cell of the inputs, in m2: cells far smaller than
\* 0.01 ha, and cells of one hectare
CellAreas == {40, 60, 10000}

\* the rows of new_urban_intersections.geojson in input_dir
InterRowSets ==
    {{},
     {[id |-> 0, geometry |-> {0}]},
     {[id |-> 0, geometry |-> {0, 1}]},
     {[id |-> 0, geometry |-> {0, 1}], [id |-> 1, geometry |-> {1}]}}

\* the rows of new_urban_no_intersections.geojson in input_dir
NoRowSets ==
    {{},
     {[id |-> 0, geometry |-> {2}]},
     {[id |-> 0, geometry |-> {2, 3}]},
     {[id |-> 0, geometry |-> {2}], [id |-> 1, geometry |-> {3}]}}

\* the region of the dataset at bogota_buffer_path
BufferGeoms == {{0, 2}, {1, 3}, Pixels}

\* bogota_buffer_path: None, a path without a file, or the path of a dataset
Buffers ==
    {[path |-> "none", geometry |-> {}], [path |-> "missing", geometry |-> {}]}
        \cup {[path |-> "present", geometry |-> g] : g \in BufferGeoms}

\* gpd.read_file(bogota_buffer_path) (line 248)
BufferFrame(b) ==
    [columns |-> {"geometry"},
     rows |-> {[id |-> 0, geometry |-> b.geometry]}]

\* geometry.area / 10000 (lines 231-232, 252-260), in thousandths of a
\* hectare, of a geometry of cells of `cell` m2
AreaMilliHa(geom, cell) == (Cardinality(geom) * cell) \div 10

\* ["area_ha"].sum() of a set of overlay rows, in thousandths of a hectare
RECURSIVE SumMilliHa(_, _)
SumMilliHa(rows, cell) ==
    IF rows = {} THEN 0
    ELSE LET r == CHOOSE x \in rows : TRUE
         IN AreaMilliHa(r.geometry, cell) + SumMilliHa(rows \ {r}, cell)

\* a plausible slip of lines 265-267: the sums are cut to 2 decimals
Round2Down(x) == (x \div 10) * 10

\* round(x, 2) (lines 265-267) of a value in thousandths of a hectare; the
\* cell areas give no value that lies halfway between two hundredths
Round2(x) == ((x + 5) \div 10) * 10

\* lines 235-237: groupby("NOMBRE")["area_ha"].sum() of a zone overlay
GroupSumMilliHa(df, cell) ==
    [n \in {r.left.name : r \in df.rows} |->
        SumMilliHa({r \in df.rows : r.left.name = n}, cell)]

\* lines 259-268: the single row of resumen_buffer; the total is the sum over
\* the concatenation of the two overlays
BufferRow(inter_buffer_inter, inter_buffer_no, cell) ==
    [zona |-> "Bogota urbana (buffer)",
     interseccion_ha |-> Round2(SumMilliHa(inter_buffer_inter.rows, cell)),
     no_interseccion_ha |-> Round2(SumMilliHa(inter_buffer_no.rows, cell)),
     total_ha |->
         Round2(SumMilliHa(inter_buffer_inter.rows, cell)
                  + SumMilliHa(inter_buffer_no.rows, cell))]

InitBuf ==
    /\ AuxIdle
    /\ \E ir \in InterRowSets, nr \in NoRowSets :
          files = [f \in {"intersections", "no_intersections", "resumen"} |->
                      IF f = "intersections"
                      THEN WriteFile([columns |-> {"geometry", "value"},
                                      rows |-> ir])
                      ELSE IF f = "no_intersections"
                      THEN WriteFile([columns |-> {"geometry", "value"},
                                      rows |-> nr])
                      ELSE [exists |-> FALSE, columns |-> {}, rows |-> {}]]
    /\ \E rows \in ZoneRows : upl = [columns |-> {"NOMBRE", "geometry"},
                                     rows |-> rows]
    /\ buffer \in Buffers
    /\ save_summary \in BOOLEAN
    /\ cell_m2 \in CellAreas
    /\ resumen_buffer = [bound |-> FALSE, rows |-> {}]
    /\ stats_dir = [f \in {"resumen_buffer_ha.csv",
                           "resumen_expansion_upl_ha.csv"} |->
                       [exists |-> FALSE, rows |-> {}]]
    /\ returned = [bound |-> FALSE, resumen_upl |-> {}, resumen_buffer |-> {}]
    /\ data = <<>>
    /\ nonpoly = {}
    /\ sac = [columns |-> {}, rows |-> {}]
    /\ res = [columns |-> {}, rows |-> {}]
    /\ eep = [columns |-> {}, rows |-> {}]
    /\ results = {}
    /\ features = {}
    /\ gdf_inter = [columns |-> {}, rows |-> {}]
    /\ gdf_no = [columns |-> {}, rows |-> {}]
    /\ inter_upl = [columns |-> {}, rows |-> {}]
    /\ nointer_upl = [columns |-> {}, rows |-> {}]
    /\ resumen = {}
    /\ raised = "none"
    /\ run = 1
    /\ aborted = FALSE
    /\ MainIdle
    /\ pc = "u_read"
    /\ input = <<>>
    /\ gdf = <<>>
    /\ cluster_id = 0
    /\ i = 0
    /\ current = {}
    /\ members = {}
    /\ changed = FALSE
    /\ calls = 0
    /\ prev_partition = {}
    /\ top = <<>>

\* lines 218-225: read the two collections of input_dir and the zones
U_Read ==
    /\ pc = "u_read"
    /\ gdf_no' = ReadFile(files["no_intersections"])
    /\ gdf_inter' = ReadFile(files["intersections"])
    /\ pc' = "u_upl"
    /\ UNCHANGED <<data, nonpoly, sac, res, eep, upl, files, results, features,
                   inter_upl, nointer_upl, resumen, raised, runvars>>
    /\ UNCHANGED <<gcvars, mnvars, bufvars>>
    /\ UNCHANGED auxvars

\* lines 228-243: overlay the zones with the two collections and build the
\* per-zone summary
U_Summarise ==
    /\ pc = "u_upl"
    /\ inter_upl' = OverlayIntersection(upl, gdf_inter)
    /\ nointer_upl' = OverlayIntersection(upl, gdf_no)
    /\ resumen' = TotalColumn(MergeOuter(GroupSumMilliHa(inter_upl', cell_m2),
                                         GroupSumMilliHa(nointer_upl',
                                                         cell_m2)))
    /\ pc' = "u_buffer"
    /\ UNCHANGED <<data, nonpoly, sac, res, eep, upl, files, results, features,
                   gdf_inter, gdf_no, raised, runvars>>
    /\ UNCHANGED <<gcvars, mnvars, bufvars>>
    /\ UNCHANGED auxvars

\* lines 246-271: the buffer dataset is there: its overlays with the two
\* collections, the single-row summary, resumen_buffer_ha.csv
U_BufferSummary ==
    /\ pc = "u_buffer"
    /\ buffer.path = "present"
    /\ resumen_buffer' =
          [bound |-> TRUE,
           rows |-> {BufferRow(
                        OverlayIntersection(BufferFrame(buffer), gdf_inter),
                        OverlayIntersection(BufferFrame(buffer), gdf_no),
                        cell_m2)}]
    /\ stats_dir' = [stats_dir EXCEPT
                        !["resumen_buffer_ha.csv"] =
                            [exists |-> TRUE, rows |-> resumen_buffer'.rows]]
    /\ pc' = "u_save"
    /\ UNCHANGED <<buffer, save_summary, cell_m2, returned>>
    /\ UNCHANGED <<gcvars, plvars, mnvars>>
    /\ UNCHANGED auxvars

\* lines 273-274: no bogota_buffer_path, or no file at it: a message only
U_SkipBuffer ==
    /\ pc = "u_buffer"
    /\ buffer.path # "present"
    /\ pc' = "u_save"
    /\ UNCHANGED <<gcvars, plvars, mnvars, bufvars>>
    /\ UNCHANGED auxvars

\* lines 278-280: save_summary: the per-zone summary is written
U_Save ==
    /\ pc = "u_save"
    /\ save_summary
    /\ stats_dir' = [stats_dir EXCEPT
                        !["resumen_expansion_upl_ha.csv"] =
                            [exists |-> TRUE, rows |-> resumen]]
    /\ pc' = "u_return"
    /\ UNCHANGED <<buffer, save_summary, cell_m2, resumen_buffer, returned>>
    /\ UNCHANGED <<gcvars, plvars, mnvars>>
    /\ UNCHANGED auxvars

\* line 278: save_summary is false, nothing is written
U_NoSave ==
    /\ pc = "u_save"
    /\ ~save_summary
    /\ pc' = "u_return"
    /\ UNCHANGED <<gcvars, plvars, mnvars, bufvars>>
    /\ UNCHANGED auxvars

\* line 282: return resumen_upl, resumen_buffer
U_Return ==
    /\ pc = "u_return"
    /\ resumen_buffer.bound
    /\ returned' = [bound |-> TRUE, resumen_upl |-> resumen,
                    resumen_buffer |-> resumen_buffer.rows]
    /\ pc' = "u_done"
    /\ UNCHANGED <<buffer, save_summary, cell_m2, resumen_buffer, stats_dir>>
    /\ UNCHANGED <<gcvars, plvars, mnvars>>
    /\ UNCHANGED auxvars

\* line 282: the name resumen_buffer was never bound, UnboundLocalError
U_ReturnUnbound ==
    /\ pc = "u_return"
    /\ ~resumen_buffer.bound
    /\ raised' = "UnboundLocalError"
    /\ pc' = "raised"
    /\ UNCHANGED <<data, nonpoly, sac, res, eep, upl, files, results, features,
                   gdf_inter, gdf_no, inter_upl, nointer_upl, resumen, runvars>>
    /\ UNCHANGED <<gcvars, mnvars, bufvars>>
    /\ UNCHANGED auxvars

NextBuf ==
    \/ U_Read
    \/ U_Summarise
    \/ U_BufferSummary
    \/ U_SkipBuffer
    \/ U_Save
    \/ U_NoSave
    \/ U_Return
    \/ U_ReturnUnbound

SpecBuf == InitBuf /\ [][NextBuf]_vars

-----------------------------------------------------------------------------
(* set_dates, src/src/aux_utils.py:133-143 *)

\* the years set_dates is called with (--anio is any integer): the years at
\* both ends of what datetime represents and the years next to them, years
\* around the leap rules of the centuries, present years
Years == {0, 1, 2, 4, 100, 400, 1900, 2000, 2023, 2024, 2025, 9999, 10000}

\* calendar.isleap
IsLeap(y) == y % 4 = 0 /\ (y % 100 # 0 \/ y % 400 = 0)

\* calendar.monthrange(y, m)[1]: the number of days of the month
MonthRange(y, m) ==
    IF m = 2 THEN (IF IsLeap(y) THEN 29 ELSE 28)
    ELSE IF m \in {4, 6, 9, 11} THEN 30
    ELSE 31

\* datetime(y, m, d) is a date: the year lies in MINYEAR..MAXYEAR, the month in
\* 1..12 and the day in the month; otherwise the constructor raises ValueError
IsDatetime(y, m, d) ==
    /\ y \in 1..9999
    /\ m \in 1..12
    /\ d \in 1..MonthRange(y, m)

\* a plausible slip of lines 135-140: the year is not stepped back in January
PrevYearSame(m, y) == y

\* lines 135-140: prev_year
PrevYear(m, y) == IF m > 1 THEN y ELSE y - 1

\* lines 135-140: prev_month
PrevMonth(m) == IF m > 1 THEN m - 1 ELSE 12

InitDates ==
    /\ anio \in Years
    /\ mes \in 1..12
    /\ last_day_curr = <<>>
    /\ last_day_prev = <<>>
    /\ TmpIdle
    /\ ReportIdle
    /\ CrsIdle
    /\ PipelineIdle
    /\ ClustersIdle
    /\ MainIdle
    /\ BufferIdle
    /\ pc = "sd_call"

\* lines 141-143: both datetime objects are built and returned
SD_Return ==
    /\ pc = "sd_call"
    /\ IsDatetime(PrevYear(mes, anio), PrevMonth(mes),
                  MonthRange(PrevYear(mes, anio), PrevMonth(mes)))
    /\ IsDatetime(anio, mes, MonthRange(anio, mes))
    /\ last_day_prev' =
          [year |-> PrevYear(mes, anio), month |-> PrevMonth(mes),
           day |-> MonthRange(PrevYear(mes, anio), PrevMonth(mes))]
    /\ last_day_curr' =
          [year |-> anio, month |-> mes, day |-> MonthRange(anio, mes)]
    /\ pc' = "sd_ret"
    /\ UNCHANGED <<anio, mes>>
    /\ UNCHANGED <<gcvars, plvars, mnvars, bufvars, tmpvars, repvars,
                   crsvars>>

\* lines 141-142: a datetime constructor raises ValueError
SD_Raise ==
    /\ pc = "sd_call"
    /\ ~(/\ IsDatetime(PrevYear(mes, anio), PrevMonth(mes),
                       MonthRange(PrevYear(mes, anio), PrevMonth(mes)))
         /\ IsDatetime(anio, mes, MonthRange(anio, mes)))
    /\ raised' = "ValueError"
    /\ pc' = "raised"
    /\ UNCHANGED <<data, nonpoly, sac, res, eep, upl, files, results, features,
                   gdf_inter, gdf_no, inter_upl, nointer_upl, resumen, runvars>>
    /\ UNCHANGED <<gcvars, mnvars, bufvars, auxvars>>

NextDates ==
    \/ SD_Return
    \/ SD_Raise

SpecDates == InitDates /\ [][NextDates]_vars

-----------------------------------------------------------------------------
(* The local copies of the layers: download_gcs_to_temp,
   src/src/aux_utils.py:18-55, and the clean up of create_intersections and
   calculate_expansion_areas, src/src/stats_utils.py:45-84 and 112-132.
   TEMP_DATA_DIR is [root |-> whether the directory exists, entries |-> what
   it holds]; an entry is [owner, kind], a file or a directory with the files
   of a shapefile, owned by the path it was downloaded for or by "other" *)

\* stats_utils.py:53 and 70: the paths the clean up of create_intersections
\* goes through, in its order
CleanupOrder == <<"sac", "res", "eep">>

\* a path is a local path, a gs:// path of a single file such as a .geojson,
\* or a gs:// path of a shapefile
PathKinds == {"local", "gs_geojson", "gs_shp"}

\* what else TEMP_DATA_DIR can hold when a call starts: a file and a
\* directory that other calls or other programs put there
OtherEntries ==
    {[owner |-> "other", kind |-> "file"], [owner |-> "other", kind |-> "dir"]}

\* aux_utils.py:20-55: download_gcs_to_temp(path) for the path named slot of
\* kind k: the local path it returns and TEMP_DATA_DIR after it
download_gcs_to_temp(td, slot, k) ==
    IF k = "local"
    THEN [local |-> [dirname |-> "data",
                     entry |-> [owner |-> slot, kind |-> "file"]],
          temp_data |-> [root |-> TRUE, entries |-> td.entries]]
    ELSE IF k = "gs_shp"
    THEN [local |-> [dirname |-> "tmpdir",
                     entry |-> [owner |-> slot, kind |-> "dir"]],
          temp_data |-> [root |-> TRUE,
                         entries |-> td.entries \cup
                                     {[owner |-> slot, kind |-> "dir"]}]]
    ELSE [local |-> [dirname |-> "TEMP_DATA_DIR",
                     entry |-> [owner |-> slot, kind |-> "file"]],
          temp_data |-> [root |-> TRUE,
                         entries |-> td.entries \cup
                                     {[owner |-> slot, kind |-> "file"]}]]

\* stats_utils.py:54-66, 71-84, 120-132: one clean up of the local path lp of
\* a path of kind k: os.path.dirname(lp) is removed with all it holds if it is
\* a directory, otherwise lp is removed if it exists
CleanUp(td, k, lp) ==
    IF k = "local" THEN td
    ELSE IF lp.dirname = "TEMP_DATA_DIR"
    THEN (IF td.root THEN [root |-> FALSE, entries |-> {}] ELSE td)
    ELSE IF td.root /\ lp.entry \in td.entries
    THEN [td EXCEPT !.entries = @ \ {lp.entry}]
    ELSE td

InitTmp ==
    /\ \E others \in SUBSET OtherEntries :
          temp_data = [root |-> TRUE, entries |-> others]
    /\ path_kind \in [{"sac", "res", "eep", "upl"} -> PathKinds]
    /\ local_path = [s \in {"sac", "res", "eep", "upl"} |->
                        [dirname |-> "none",
                         entry |-> [owner |-> s, kind |-> "none"]]]
    /\ DatesIdle
    /\ ReportIdle
    /\ CrsIdle
    /\ data = <<>>
    /\ nonpoly = {}
    /\ sac = [columns |-> {}, rows |-> {}]
    /\ res = [columns |-> {}, rows |-> {}]
    /\ eep = [columns |-> {}, rows |-> {}]
    /\ upl \in {[columns |-> {"NOMBRE", "geometry"}, rows |-> {}],
                [columns |-> {"geometry"}, rows |-> {}]}
    /\ files = [f \in {"intersections", "no_intersections", "resumen"} |->
                    [exists |-> FALSE, columns |-> {}, rows |-> {}]]
    /\ results = {}
    /\ features = {}
    /\ gdf_inter = [columns |-> {}, rows |-> {}]
    /\ gdf_no = [columns |-> {}, rows |-> {}]
    /\ inter_upl = [columns |-> {}, rows |-> {}]
    /\ nointer_upl = [columns |-> {}, rows |-> {}]
    /\ resumen = {}
    /\ raised = "none"
    /\ run = 1
    /\ aborted = FALSE
    /\ ClustersIdle
    /\ MainIdle
    /\ BufferIdle
    /\ pc = "t_ci"

\* stats_utils.py:45-47: create_intersections downloads the three layers
T_CI_Download ==
    /\ pc = "t_ci"
    /\ LET d1 == download_gcs_to_temp(temp_data, "sac", path_kind["sac"])
           d2 == download_gcs_to_temp(d1.temp_data, "res", path_kind["res"])
           d3 == download_gcs_to_temp(d2.temp_data, "eep", path_kind["eep"])
       IN /\ temp_data' = d3.temp_data
          /\ local_path' = [local_path EXCEPT !["sac"] = d1.local,
                                              !["res"] = d2.local,
                                              !["eep"] = d3.local]
    /\ pc' = "t_ci_clean_1_1"
    /\ UNCHANGED path_kind
    /\ UNCHANGED <<gcvars, plvars, mnvars, bufvars, dtvars, repvars,
                   crsvars>>

\* the step after a step of the two clean up loops of create_intersections
CleanupAfter ==
    [t_ci_clean_1_1 |-> "t_ci_clean_1_2", t_ci_clean_1_2 |-> "t_ci_clean_1_3",
     t_ci_clean_1_3 |-> "t_ci_clean_2_1", t_ci_clean_2_1 |-> "t_ci_clean_2_2",
     t_ci_clean_2_2 |-> "t_ci_clean_2_3", t_ci_clean_2_3 |-> "t_cea"]

\* the place in CleanupOrder a step of the clean up loops works on
CleanupIndex ==
    [t_ci_clean_1_1 |-> 1, t_ci_clean_1_2 |-> 2, t_ci_clean_1_3 |-> 3,
     t_ci_clean_2_1 |-> 1, t_ci_clean_2_2 |-> 2, t_ci_clean_2_3 |-> 3]

\* stats_utils.py:53-66 and 70-84: one iteration of one of the two clean up
\* loops of create_intersections
T_CI_CleanUp ==
    /\ pc \in DOMAIN CleanupAfter
    /\ temp_data' = CleanUp(temp_data, path_kind[CleanupOrder[CleanupIndex[pc]]],
                            local_path[CleanupOrder[CleanupIndex[pc]]])
    /\ pc' = CleanupAfter[pc]
    /\ UNCHANGED <<path_kind, local_path>>
    /\ UNCHANGED <<gcvars, plvars, mnvars, bufvars, dtvars, repvars,
                   crsvars>>

\* stats_utils.py:112-113: calculate_expansion_areas downloads the zones
T_CEA_Download ==
    /\ pc = "t_cea"
    /\ LET d == download_gcs_to_temp(temp_data, "upl", path_kind["upl"])
       IN /\ temp_data' = d.temp_data
          /\ local_path' = [local_path EXCEPT !["upl"] = d.local]
    /\ pc' = "t_cea_check"
    /\ UNCHANGED path_kind
    /\ UNCHANGED <<gcvars, plvars, mnvars, bufvars, dtvars, repvars,
                   crsvars>>

\* stats_utils.py:116-117: the zones have no NOMBRE: ValueError, before the
\* clean up
T_CEA_MissingNombre ==
    /\ pc = "t_cea_check"
    /\ ~HasNombre(upl.columns)
    /\ raised' = "ValueError"
    /\ pc' = "raised"
    /\ UNCHANGED <<data, nonpoly, sac, res, eep, upl, files, results, features,
                   gdf_inter, gdf_no, inter_upl, nointer_upl, resumen, runvars>>
    /\ UNCHANGED <<gcvars, mnvars, bufvars, auxvars>>

\* stats_utils.py:119-132: the clean up of calculate_expansion_areas
T_CEA_CleanUp ==
    /\ pc = "t_cea_check"
    /\ HasNombre(upl.columns)
    /\ temp_data' = CleanUp(temp_data, path_kind["upl"], local_path["upl"])
    /\ pc' = "t_done"
    /\ UNCHANGED <<path_kind, local_path>>
    /\ UNCHANGED <<gcvars, plvars, mnvars, bufvars, dtvars, repvars,
                   crsvars>>

NextTmp ==
    \/ T_CI_Download
    \/ T_CI_CleanUp
    \/ T_CEA_Download
    \/ T_CEA_MissingNombre
    \/ T_CEA_CleanUp

SpecTmp == InitTmp /\ [][NextTmp]_vars

-----------------------------------------------------------------------------
(* The report: TOP_UPLS in the report section of main, src/main.py:136-155,
   and in build_report, src/src/pipeline_utils.py:90-108. Areas are in
   thousandths of a hectare. A value of the column interseccion_ha_strict is
   [nan |-> whether it is NaN, v |-> the number if it is not] *)

\* the most zones a summary has
MaxZones == 6

\* main.py:145, pipeline_utils.py:98: nlargest(5, ...)
nlargest_n == 5

\* the values of interseccion_ha in a summary: one that rounds to 0.00, one
\* that rounds to 0.02, a large one
HaValues == {4, 16, 1250}

\* the zones that a strict summary can hold when the summary holds the zones
\* 1..n: all of them, none, or all but one
StrictZones(n) == {1..n, {}} \cup {(1..n) \ {z} : z \in 1..n}

\* the position of the row nlargest takes first among the positions ps of df:
\* the largest interseccion_ha, the earliest row among equal ones
FirstLargest(df, ps) ==
    CHOOSE p \in ps :
        \A q \in ps : \/ df[q].interseccion_ha < df[p].interseccion_ha
                      \/ (df[q].interseccion_ha = df[p].interseccion_ha
                          /\ p <= q)

\* df.nlargest(n, "interseccion_ha") over the positions ps of df
RECURSIVE NlargestFrom(_, _, _)
NlargestFrom(n, df, ps) ==
    IF n = 0 \/ ps = {} THEN <<>>
    ELSE <<df[FirstLargest(df, ps)]>> \o
         NlargestFrom(n - 1, df, ps \ {FirstLargest(df, ps)})

\* main.py:145, pipeline_utils.py:98: df.nlargest(n, "interseccion_ha")
Nlargest(n, df) == NlargestFrom(n, df, DOMAIN df)

\* main.py:141-142: df.merge(df_strict, on="NOMBRE", how="left"): a zone that
\* df_strict does not hold gets NaN
MergeLeft(df, strict_rows) ==
    [k \in DOMAIN df |->
        [NOMBRE |-> df[k].NOMBRE,
         interseccion_ha |-> df[k].interseccion_ha,
         total_ha |-> df[k].total_ha,
         interseccion_ha_strict |->
            IF df[k].NOMBRE \in DOMAIN strict_rows
            THEN [nan |-> FALSE, v |-> strict_rows[df[k].NOMBRE]]
            ELSE [nan |-> TRUE, v |-> 0]]]

\* pipeline_utils.py:94: .fillna(0)
Fillna0(df) ==
    [k \in DOMAIN df |->
        [df[k] EXCEPT !.interseccion_ha_strict =
            IF @.nan THEN [nan |-> FALSE, v |-> 0] ELSE @]]

\* main.py:143-144, pipeline_utils.py:95-96: df["interseccion_ha_strict"] = 0
StrictColumnZero(df) ==
    [k \in DOMAIN df |->
        [NOMBRE |-> df[k].NOMBRE,
         interseccion_ha |-> df[k].interseccion_ha,
         total_ha |-> df[k].total_ha,
         interseccion_ha_strict |-> [nan |-> FALSE, v |-> 0]]]

\* main.py:146-154, pipeline_utils.py:99-107: the entries of TOP_UPLS;
\* round(NaN, 2) is NaN
TopUpls(df_top) ==
    [k \in DOMAIN df_top |->
        [UPL |-> df_top[k].NOMBRE,
         INTER_HA |-> Round2(df_top[k].interseccion_ha),
         INTER_HA_STRICT |->
            IF df_top[k].interseccion_ha_strict.nan
            THEN [nan |-> TRUE, v |-> 0]
            ELSE [nan |-> FALSE,
                  v |-> Round2(df_top[k].interseccion_ha_strict.v)],
         TOTAL_HA |-> Round2(df_top[k].total_ha)]]

\* the summary of the label and the strict summary as calculate_expansion_areas
\* of stats_utils writes them: one row per zone, in the order of the zone
\* names; the strict area of a zone is a part of its area
InitRep ==
    /\ \E n \in 0..MaxZones : \E v \in [1..n -> HaValues] : \E ni \in HaValues :
          /\ summary_csv = [k \in 1..n |->
                               [NOMBRE |-> k, interseccion_ha |-> v[k],
                                total_ha |-> v[k] + ni]]
          /\ \E zs \in StrictZones(n) : \E there \in BOOLEAN :
                strict_csv = [exists |-> there,
                              rows |-> IF there
                                       THEN [z \in zs |-> v[z] \div 2]
                                       ELSE <<>>]
    /\ top_upls = <<>>
    /\ DatesIdle
    /\ TmpIdle
    /\ CrsIdle
    /\ PipelineIdle
    /\ ClustersIdle
    /\ MainIdle
    /\ BufferIdle
    /\ pc = "r_call"

\* main.py:139-154: the report section of main
R_Main ==
    /\ pc = "r_call"
    /\ top_upls' =
          TopUpls(Nlargest(nlargest_n,
                           IF strict_csv.exists
                           THEN MergeLeft(summary_csv, strict_csv.rows)
                           ELSE StrictColumnZero(summary_csv)))
    /\ pc' = "r_main"
    /\ UNCHANGED <<summary_csv, strict_csv>>
    /\ UNCHANGED <<gcvars, plvars, mnvars, bufvars, dtvars, tmpvars,
                   crsvars>>

\* pipeline_utils.py:92-107: build_report
R_BuildReport ==
    /\ pc = "r_call"
    /\ top_upls' =
          TopUpls(Nlargest(nlargest_n,
                           IF strict_csv.exists
                           THEN Fillna0(MergeLeft(summary_csv,
                                                  strict_csv.rows))
                           ELSE StrictColumnZero(summary_csv)))
    /\ pc' = "r_build"
    /\ UNCHANGED <<summary_csv, strict_csv>>
    /\ UNCHANGED <<gcvars, plvars, mnvars, bufvars, dtvars, tmpvars,
                   crsvars>>

NextRep ==
    \/ R_Main
    \/ R_BuildReport

SpecRep == InitRep /\ [][NextRep]_vars

-----------------------------------------------------------------------------
(* The CRS of every collection in create_intersections and
   calculate_expansion_areas, src/src/stats_utils.py:11-150, and in
   create_growth_clusters, src/src/utils.py:333-373, called one after the
   other. A CRS is its name, "none" for a dataset without one *)

\* aux_utils.py:121: export_image writes <label>.tif in this CRS
export_crs == "EPSG:4326"

\* stats_utils.py:106 and the default of utils.py:333: the CRS of the areas
crs == "EPSG:9377"

\* the CRS a layer, the zones or the input of create_growth_clusters can be
\* stored in: two geographic ones, the projected one, none
LayerCRSs == {"EPSG:4326", "EPSG:4686", "EPSG:9377", "none"}

\* the GeoDataFrames whose CRS is followed
Frames ==
    {"gdf_newurban", "gdf_sac", "gdf_res", "gdf_eep", "ci_gdf_inter",
     "no_inter", "gdf_no", "gdf_inter", "gdf_upl", "inter_upl", "nointer_upl",
     "gdf"}

\* GeoDataFrame.to_crs raises ValueError for a frame without a CRS
CanReproject(c) == c # "none"

\* a plausible slip: the frame keeps the CRS it was read with
to_crs_keep(c, target) == c

\* GeoDataFrame.to_crs(target) of a frame tagged c that has a CRS
to_crs(c, target) == target

\* to_file(... .geojson) then read_file: a GeoJSON without a crs member is
\* read as EPSG:4326
GeoJSONCrs(c) == IF c = "none" THEN "EPSG:4326" ELSE c

\* gpd.overlay(df1, df2) at a line: the computation as logged, and the CRS of
\* its result, that of df1
OverlayOp(line, c1, c2) == [line |-> line, op |-> "overlay", a |-> c1, b |-> c2]

\* .geometry.area or .geometry.buffer at a line, as logged
GeomOp(line, op, c) == [line |-> line, op |-> op, a |-> c, b |-> c]

InitCRS ==
    /\ \E layer \in [{"sac", "res", "eep", "upl", "gdf_path"} -> LayerCRSs] :
          file_crs = [f \in {"tif", "sac", "res", "eep", "upl", "gdf_path",
                             "inter", "no_inter"} |->
                         IF f = "tif" THEN export_crs
                         ELSE IF f \in {"inter", "no_inter"} THEN "missing"
                         ELSE layer[f]]
    /\ frame_crs = [f \in Frames |-> "unset"]
    /\ ops = {}
    /\ DatesIdle
    /\ TmpIdle
    /\ ReportIdle
    /\ PipelineIdle
    /\ ClustersIdle
    /\ MainIdle
    /\ BufferIdle
    /\ pc = "x_ci"

\* stats_utils.py:25-41: no shapes or no polygonal features: the empty
\* intersections file is written in the CRS of the raster, nothing else
X_CI_NoFeatures ==
    /\ pc = "x_ci"
    /\ file_crs' = [file_crs EXCEPT !["inter"] = GeoJSONCrs(file_crs["tif"])]
    /\ pc' = "x_cea"
    /\ UNCHANGED <<frame_crs, ops>>
    /\ UNCHANGED <<gcvars, plvars, mnvars, bufvars, dtvars, tmpvars, repvars>>

\* stats_utils.py:43: gdf_newurban gets the CRS of the raster
X_CI_Frame ==
    /\ pc = "x_ci"
    /\ frame_crs' = [frame_crs EXCEPT !["gdf_newurban"] = file_crs["tif"]]
    /\ pc' = "x_ci_layers"
    /\ UNCHANGED <<file_crs, ops>>
    /\ UNCHANGED <<gcvars, plvars, mnvars, bufvars, dtvars, tmpvars, repvars>>

\* stats_utils.py:49-51: the three layers are read and reprojected to the CRS
\* of gdf_newurban
X_CI_Layers ==
    /\ pc = "x_ci_layers"
    /\ \A l \in {"sac", "res", "eep"} : CanReproject(file_crs[l])
    /\ frame_crs' = [frame_crs EXCEPT
          !["gdf_sac"] = to_crs(file_crs["sac"], frame_crs["gdf_newurban"]),
          !["gdf_res"] = to_crs(file_crs["res"], frame_crs["gdf_newurban"]),
          !["gdf_eep"] = to_crs(file_crs["eep"], frame_crs["gdf_newurban"])]
    /\ pc' = "x_ci_overlay"
    /\ UNCHANGED <<file_crs, ops>>
    /\ UNCHANGED <<gcvars, plvars, mnvars, bufvars, dtvars, tmpvars, repvars>>

\* stats_utils.py:49-51: a layer has no CRS, to_crs raises ValueError
X_CI_LayersRaise ==
    /\ pc = "x_ci_layers"
    /\ \E l \in {"sac", "res", "eep"} : ~CanReproject(file_crs[l])
    /\ raised' = "ValueError"
    /\ pc' = "x_gc"
    /\ UNCHANGED <<data, nonpoly, sac, res, eep, upl, files, results, features,
                   gdf_inter, gdf_no, inter_upl, nointer_upl, resumen, runvars>>
    /\ UNCHANGED <<gcvars, mnvars, bufvars, auxvars>>

\* stats_utils.py:86-92: the three overlays, their concatenation and the
\* intersections file
X_CI_Overlay ==
    /\ pc = "x_ci_overlay"
    /\ ops' = ops \cup
          {OverlayOp(87, frame_crs["gdf_newurban"], frame_crs["gdf_sac"]),
           OverlayOp(88, frame_crs["gdf_newurban"], frame_crs["gdf_res"]),
           OverlayOp(89, frame_crs["gdf_newurban"], frame_crs["gdf_eep"])}
    /\ frame_crs' = [frame_crs EXCEPT
                        !["ci_gdf_inter"] = frame_crs["gdf_newurban"]]
    /\ file_crs' = [file_crs EXCEPT
                       !["inter"] = GeoJSONCrs(frame_crs["gdf_newurban"])]
    /\ pc' = "x_ci_diff"
    /\ UNCHANGED <<gcvars, plvars, mnvars, bufvars, dtvars, tmpvars, repvars>>

\* stats_utils.py:94-97: nothing intersects: gdf_newurban is the
\* no_intersections file
X_CI_NoInter ==
    /\ pc = "x_ci_diff"
    /\ file_crs' = [file_crs EXCEPT
                       !["no_inter"] = GeoJSONCrs(frame_crs["gdf_newurban"])]
    /\ pc' = "x_cea"
    /\ UNCHANGED <<frame_crs, ops>>
    /\ UNCHANGED <<gcvars, plvars, mnvars, bufvars, dtvars, tmpvars, repvars>>

\* stats_utils.py:99-100: the difference overlay and the no_intersections file
X_CI_Difference ==
    /\ pc = "x_ci_diff"
    /\ ops' = ops \cup {OverlayOp(99, frame_crs["gdf_newurban"],
                                  frame_crs["ci_gdf_inter"])}
    /\ frame_crs' = [frame_crs EXCEPT
                        !["no_inter"] = frame_crs["gdf_newurban"]]
    /\ file_crs' = [file_crs EXCEPT
                       !["no_inter"] = GeoJSONCrs(frame_crs["gdf_newurban"])]
    /\ pc' = "x_cea"
    /\ UNCHANGED <<gcvars, plvars, mnvars, bufvars, dtvars, tmpvars, repvars>>

\* stats_utils.py:110-114: the two files and the zones are read and
\* reprojected to crs
X_CEA_Read ==
    /\ pc = "x_cea"
    /\ file_crs["no_inter"] # "missing"
    /\ file_crs["inter"] # "missing"
    /\ CanReproject(file_crs["upl"])
    /\ frame_crs' = [frame_crs EXCEPT
          !["gdf_no"] = to_crs(file_crs["no_inter"], crs),
          !["gdf_inter"] = to_crs(file_crs["inter"], crs),
          !["gdf_upl"] = to_crs(file_crs["upl"], crs)]
    /\ pc' = "x_cea_overlay"
    /\ UNCHANGED <<file_crs, ops>>
    /\ UNCHANGED <<gcvars, plvars, mnvars, bufvars, dtvars, tmpvars, repvars>>

\* stats_utils.py:110-114: a file is missing or the zones have no CRS:
\* read_file or to_crs raises
X_CEA_ReadRaises ==
    /\ pc = "x_cea"
    /\ \/ file_crs["no_inter"] = "missing"
       \/ file_crs["inter"] = "missing"
       \/ ~CanReproject(file_crs["upl"])
    /\ raised' = IF "missing" \in {file_crs["no_inter"], file_crs["inter"]}
                 THEN "DataSourceError" ELSE "ValueError"
    /\ pc' = "x_gc"
    /\ UNCHANGED <<data, nonpoly, sac, res, eep, upl, files, results, features,
                   gdf_inter, gdf_no, inter_upl, nointer_upl, resumen, runvars>>
    /\ UNCHANGED <<gcvars, mnvars, bufvars, auxvars>>

\* stats_utils.py:134-135: the two overlays with the zones
X_CEA_Overlay ==
    /\ pc = "x_cea_overlay"
    /\ ops' = ops \cup
          {OverlayOp(134, frame_crs["gdf_upl"], frame_crs["gdf_inter"]),
           OverlayOp(135, frame_crs["gdf_upl"], frame_crs["gdf_no"])}
    /\ frame_crs' = [frame_crs EXCEPT
                        !["inter_upl"] = frame_crs["gdf_upl"],
                        !["nointer_upl"] = frame_crs["gdf_upl"]]
    /\ pc' = "x_cea_area"
    /\ UNCHANGED file_crs
    /\ UNCHANGED <<gcvars, plvars, mnvars, bufvars, dtvars, tmpvars, repvars>>

\* stats_utils.py:137-138: the two area columns
X_CEA_Area ==
    /\ pc = "x_cea_area"
    /\ ops' = ops \cup {GeomOp(137, "area", frame_crs["inter_upl"]),
                        GeomOp(138, "area", frame_crs["nointer_upl"])}
    /\ pc' = "x_gc"
    /\ UNCHANGED <<file_crs, frame_crs>>
    /\ UNCHANGED <<gcvars, plvars, mnvars, bufvars, dtvars, tmpvars, repvars>>

\* utils.py:340: create_growth_clusters reads its input and reprojects it
X_GC_Read ==
    /\ pc = "x_gc"
    /\ CanReproject(file_crs["gdf_path"])
    /\ frame_crs' = [frame_crs EXCEPT
                        !["gdf"] = to_crs(file_crs["gdf_path"], crs)]
    /\ pc' = "x_gc_buffer"
    /\ UNCHANGED <<file_crs, ops>>
    /\ UNCHANGED <<gcvars, plvars, mnvars, bufvars, dtvars, tmpvars, repvars>>

\* utils.py:340: the input has no CRS, to_crs raises ValueError
X_GC_ReadRaises ==
    /\ pc = "x_gc"
    /\ ~CanReproject(file_crs["gdf_path"])
    /\ raised' = "ValueError"
    /\ pc' = "x_done"
    /\ UNCHANGED <<data, nonpoly, sac, res, eep, upl, files, results, features,
                   gdf_inter, gdf_no, inter_upl, nointer_upl, resumen, runvars>>
    /\ UNCHANGED <<gcvars, mnvars, bufvars, auxvars>>

\* utils.py:341: the buffers
X_GC_Buffer ==
    /\ pc = "x_gc_buffer"
    /\ ops' = ops \cup {GeomOp(341, "buffer", frame_crs["gdf"])}
    /\ pc' = "x_gc_area"
    /\ UNCHANGED <<file_crs, frame_crs>>
    /\ UNCHANGED <<gcvars, plvars, mnvars, bufvars, dtvars, tmpvars, repvars>>

\* utils.py:369: the area column
X_GC_Area ==
    /\ pc = "x_gc_area"
    /\ ops' = ops \cup {GeomOp(369, "area", frame_crs["gdf"])}
    /\ pc' = "x_done"
    /\ UNCHANGED <<file_crs, frame_crs>>
    /\ UNCHANGED <<gcvars, plvars, mnvars, bufvars, dtvars, tmpvars, repvars>>

NextCRS ==
    \/ X_CI_NoFeatures
    \/ X_CI_Frame
    \/ X_CI_Layers
    \/ X_CI_LayersRaise
    \/ X_CI_Overlay
    \/ X_CI_NoInter
    \/ X_CI_Difference
    \/ X_CEA_Read
    \/ X_CEA_ReadRaises
    \/ X_CEA_Overlay
    \/ X_CEA_Area
    \/ X_GC_Read
    \/ X_GC_ReadRaises
    \/ X_GC_Buffer
    \/ X_GC_Area

SpecCRS == InitCRS /\ [][NextCRS]_vars

-----------------------------------------------------------------------------
(* create_intersections on a square raster, src/src/stats_utils.py:11-101: a
   pixel is the cell <<row, column>>, the column growing to the east *)

\* the side of the square raster, in pixels
MaskSize == 10

\* aux_utils.py:120: the side of a pixel, in metres
scale == 10

\* the pixels of the square raster
MaskCells == (0..(MaskSize - 1)) \X (0..(MaskSize - 1))

\* the pixels that share a side with pixel p
Neighbours(p) ==
    {<<p[1], p[2] + 1>>, <<p[1], p[2] - 1>>,
     <<p[1] + 1, p[2]>>, <<p[1] - 1, p[2]>>} \cap MaskCells

\* the connected region of equal value grown from the pixels of region
RECURSIVE Grow(_, _)
Grow(d, region) ==
    LET more == {q \in UNION {Neighbours(p) : p \in region} :
                    \E p \in region : q \in Neighbours(p) /\ d[q] = d[p]}
    IN IF more \subseteq region THEN region ELSE Grow(d, region \cup more)

\* a plausible slip of the vectorizer: one shape per positive pixel
Shapes2DPerPixel(d, np) ==
    {[geometry |-> {p},
      value |-> d[p],
      type |-> IF p \in np THEN "LineString" ELSE "Polygon"] :
        p \in {q \in DOMAIN d : d[q] > 0}}

\* lines 19-22: shapes(data, mask=data > 0) on the square raster: one shape
\* per region of pixels of equal positive value connected by their sides,
\* with the geometry type the vectorizer reports
Shapes2D(d, np) ==
    {[geometry |-> Grow(d, {p}),
      value |-> d[p],
      type |-> IF Grow(d, {p}) \cap np # {} THEN "LineString"
               ELSE "Polygon"] :
        p \in {q \in DOMAIN d : d[q] > 0}}

\* the block of 2 x 2 pixels whose upper left pixel is <<r, c>>
Block(r, c) == {<<r, c>>, <<r, c + 1>>, <<r + 1, c>>, <<r + 1, c + 1>>}

\* the left half of that block
LeftHalf(r, c) == {<<r, c>>, <<r + 1, c>>}

\* a mask: no positive pixel, or the block at <<r, c>> of positive pixels
Mask(blank, r, c) ==
    [p \in MaskCells |-> IF ~blank /\ p \in Block(r, c) THEN 1 ELSE 0]

\* the polygons of a restriction layer next to a block at <<r, c>>: none, the
\* left half of the block, everything from the left half to the west, the
\* whole block
LayerPolygons(r, c) ==
    {{}, LeftHalf(r, c),
     {p \in MaskCells : p[1] \in {r, r + 1} /\ p[2] <= c},
     Block(r, c)}

\* the area of a geometry in m2
AreaM2(g) == Cardinality(g) * scale * scale

InitScn ==
    /\ AuxIdle
    /\ \E r \in 0..(MaskSize - 2), c \in 0..(MaskSize - 2) :
          /\ \E blank \in BOOLEAN :
                /\ blank => (r = 0 /\ c = 0)
                /\ data = Mask(blank, r, c)
          /\ \E bad \in BOOLEAN : nonpoly = IF bad THEN Block(r, c) ELSE {}
          /\ \E l \in {"sac", "res", "eep"} : \E g \in LayerPolygons(r, c) :
                /\ sac = Layer("sac", {"geometry"},
                               IF l = "sac" THEN g ELSE {})
                /\ res = Layer("res", {"geometry"},
                               IF l = "res" THEN g ELSE {})
                /\ eep = Layer("eep", {"geometry"},
                               IF l = "eep" THEN g ELSE {})
    /\ upl = [columns |-> {}, rows |-> {}]
    /\ files = [f \in {"intersections", "no_intersections", "resumen"} |->
                    [exists |-> FALSE, columns |-> {}, rows |-> {}]]
    /\ results = {}
    /\ features = {}
    /\ gdf_inter = [columns |-> {}, rows |-> {}]
    /\ gdf_no = [columns |-> {}, rows |-> {}]
    /\ inter_upl = [columns |-> {}, rows |-> {}]
    /\ nointer_upl = [columns |-> {}, rows |-> {}]
    /\ resumen = {}
    /\ raised = "none"
    /\ run = 1
    /\ aborted = FALSE
    /\ ClustersIdle
    /\ MainIdle
    /\ BufferIdle
    /\ pc = "ci_open_2d"

\* lines 19-22: open the square raster and vectorize the positive pixels
CI_Open2D ==
    /\ pc = "ci_open_2d"
    /\ results' = Shapes2D(data, nonpoly)
    /\ pc' = "ci_results"
    /\ UNCHANGED <<data, nonpoly, sac, res, eep, upl, files, features,
                   gdf_inter, gdf_no, inter_upl, nointer_upl, resumen, raised>>
    /\ UNCHANGED <<gcvars, runvars, mnvars, bufvars>>
    /\ UNCHANGED auxvars

NextScn ==
    \/ CI_Open2D
    \/ CI_NoResults
    \/ CI_Filter
    \/ CI_NoFeatures
    \/ CI_Overlay
    \/ CI_NoInter
    \/ CI_Difference

SpecScn == InitScn /\ [][NextScn]_vars

-----------------------------------------------------------------------------
NextGC ==
    \/ GC_Skip
    \/ GC_NewCluster
    \/ GC_Absorb
    \/ GC_FixedPoint
    \/ GC_Finish
    \/ GC_Call
    \/ TopClusters

SpecGC == InitGC /\ [][NextGC]_vars

\* create_growth_clusters and top_clusters are sequential code: a step that
\* can be taken is taken
FairSpecGC == SpecGC /\ WF_vars(NextGC)

-----------------------------------------------------------------------------
(* Properties of create_growth_clusters *)

\* the rows of g that carry the same cluster_id as row j
SameCluster(g, j) == {m \in DOMAIN g : g[m].cluster_id = g[j].cluster_id}

\* the rows reachable from the rows S along pairs of intersecting buffers
RECURSIVE Reach(_, _)
Reach(g, S) ==
    LET T == S \cup {j \in DOMAIN g : \E s \in S :
                        Intersects(Buffer(g[s].geometry, buffer_distance),
                                   Buffer(g[j].geometry, buffer_distance))}
    IN IF T = S THEN S ELSE Reach(g, T)

\* hectares covered by one grid cell of the cluster model
HaPerCell == (CellSize * CellSize) \div 10000

\* a chain P=P0,...,Pn=Q with intersecting consecutive buffers exists
Chain(g, p, q) == q \in Reach(g, {p})

\* C1: when create_growth_clusters returns, every feature carries a
\* cluster_id >= 1, none is left at -1, empty geometries included
C1_EveryFeatureAssigned ==
    pc = "gc_done" => \A j \in DOMAIN gdf : gdf[j].cluster_id >= 1

\* C2: after create_growth_clusters two features have the same cluster_id
\* if and only if a chain of intersecting buffers links them
C2_ClustersAreComponents ==
    pc = "gc_done" =>
        \A p, q \in DOMAIN gdf :
            (gdf[p].cluster_id = gdf[q].cluster_id) <=> Chain(gdf, p, q)

\* C3: two orderings of the same features give the same partition into
\* clusters
C3_OrderIndependent ==
    (pc = "gc_done" /\ calls = 2) => Partition(gdf) = prev_partition

\* C3 witness: the second call ran on a different order and returned at least
\* two clusters, one of them with two members or more
C3_Witness ==
    /\ pc = "gc_done"
    /\ calls = 2
    /\ \E j \in DOMAIN input : input[j].fid # j
    /\ Cardinality(Partition(gdf)) >= 2
    /\ \E b \in Partition(gdf) : Cardinality(b) >= 2

\* C4: every call terminates: the while loop reaches its fixed point and the
\* for loop completes
C4_Terminates == (pc \in {"gc_for", "gc_while"}) ~> (pc = "gc_done")

\* C4 witness: a call has returned in which a member was absorbed in a later
\* pass of the while loop (its buffer does not meet the seed's buffer)
C4_Witness ==
    /\ pc = "gc_done"
    /\ \E a, b \in DOMAIN gdf :
          /\ gdf[a].cluster_id >= 1
          /\ gdf[b].cluster_id = gdf[a].cluster_id
          /\ \A m \in SameCluster(gdf, a) : a <= m
          /\ ~Intersects(Buffer(gdf[a].geometry, buffer_distance),
                         Buffer(gdf[b].geometry, buffer_distance))

-----------------------------------------------------------------------------
(* Properties of create_intersections and calculate_expansion_areas *)

\* the zone names that appear in a zone overlay
ZoneNamesIn(df) == {r.left.name : r \in df.rows}

\* C6: every row of the per-zone summary has
\* total_ha = interseccion_ha + no_interseccion_ha
C6_TotalIsSum ==
    \A r \in resumen \cup files["resumen"].rows :
        r.total_ha = r.interseccion_ha + r.no_interseccion_ha

\* C6 witness: a written summary with a row whose two areas are both positive
C6_Witness ==
    /\ pc = "cea_ret"
    /\ \E r \in files["resumen"].rows :
          r.interseccion_ha > 0 /\ r.no_interseccion_ha > 0

\* C7: the summary has exactly one row per zone name of either overlay, no
\* other row, and 0 in the column of the overlay a zone is missing from
C7_OneRowPerZoneName ==
    pc = "cea_ret" =>
        /\ files["resumen"].exists
        /\ files["resumen"].rows = resumen
        /\ {r.NOMBRE : r \in resumen} =
              ZoneNamesIn(inter_upl) \cup ZoneNamesIn(nointer_upl)
        /\ \A r1, r2 \in resumen : r1.NOMBRE = r2.NOMBRE => r1 = r2
        /\ \A r \in resumen :
              /\ r.NOMBRE \notin ZoneNamesIn(inter_upl) => r.interseccion_ha = 0
              /\ r.NOMBRE \notin ZoneNamesIn(nointer_upl) =>
                    r.no_interseccion_ha = 0

\* C7 witness: a summary with a zone found only in the intersecting overlay
\* and a zone found only in the non-intersecting overlay
C7_Witness ==
    /\ pc = "cea_ret"
    /\ \E r \in resumen :
          r.interseccion_ha > 0 /\ r.NOMBRE \notin ZoneNamesIn(nointer_upl)
    /\ \E r \in resumen :
          r.no_interseccion_ha > 0 /\ r.NOMBRE \notin ZoneNamesIn(inter_upl)

\* C8: with zones that have no NOMBRE column calculate_expansion_areas ends
\* in an error, before any overlay is computed or any summary written
C8_MissingNombreIsFatal ==
    "NOMBRE" \notin upl.columns =>
        /\ pc \notin {"cea_summary", "cea_ret"}
        /\ inter_upl.rows = {}
        /\ nointer_upl.rows = {}
        /\ resumen = {}
        /\ ~files["resumen"].exists

\* C8 witness: the ValueError of the NOMBRE check was raised with both
\* collections read and something to aggregate in them
C8_Witness ==
    /\ pc = "raised"
    /\ raised = "ValueError"
    /\ "NOMBRE" \notin upl.columns
    /\ gdf_inter.rows # {}
    /\ gdf_no.rows # {}

C10_AllZeroMaskCompletes ==
    ((\A p \in DOMAIN data : data[p] = 0) /\ pc \in {"cea_ret", "raised"}) =>
        /\ pc = "cea_ret"
        /\ raised = "none"
        /\ files["intersections"].exists
        /\ files["intersections"].rows = {}
        /\ files["no_intersections"].exists
        /\ files["no_intersections"].rows = {}
        /\ \A r \in resumen : r.total_ha = 0

\* the region a set of rows covers
Region(rows) == UNION {r.geometry : r \in rows}

\* the features of the three restriction layers
LayerRows == sac.rows \cup res.rows \cup eep.rows

\* the number of restriction features a cell lies in
Coverage(c) == Cardinality({b \in LayerRows : c \in b.geometry})

\* the vectorized expansion polygons of the raster, as a region
ExpansionRegion == Region(PolygonalFeatures(Shapes(data, nonpoly)))

\* the sum of the areas of a set of rows, in square metres
RECURSIVE SumArea(_)
SumArea(rows) ==
    IF rows = {} THEN 0
    ELSE LET r == CHOOSE x \in rows : TRUE
         IN Area(r.geometry) + SumArea(rows \ {r})

\* the sum over cells of the number of restriction features they lie in
RECURSIVE SumCoverage(_)
SumCoverage(cells) ==
    IF cells = {} THEN 0
    ELSE LET c == CHOOSE x \in cells : TRUE
         IN Coverage(c) + SumCoverage(cells \ {c})

\* C11: on each return of create_intersections that raises nothing (no
\* positive pixel, no polygonal shape, no intersection, normal completion)
\* the intersections file of the label has been written: empty on the two
\* early returns, the concatenated overlays otherwise
C11_IntersectionsWritten ==
    pc = "ci_ret" =>
        /\ raised = "none"
        /\ files["intersections"].exists
        /\ files["intersections"].rows =
              IF features = {} THEN {} ELSE gdf_inter.rows

\* C11 witness: create_intersections returned early because the vectorizer
\* yielded shapes, none of them polygonal
C11_Witness ==
    /\ pc = "ci_ret"
    /\ results # {}
    /\ features = {}
    /\ files["intersections"].exists

\* C12: when no expansion polygon shares area with a feature of any of the
\* three layers, create_intersections raises nothing and the no_intersections
\* file it writes holds every vectorized expansion polygon, unchanged
C12_NoIntersectionKeepsAll ==
    (/\ pc \in {"ci_inter", "ci_ret"}
     /\ features # {}
     /\ \A f \in features : \A b \in LayerRows :
            f.geometry \cap b.geometry = {}) =>
        /\ raised = "none"
        /\ pc = "ci_ret" =>
              /\ files["no_intersections"].exists
              /\ files["no_intersections"].columns = {"geometry", "value"}
              /\ files["no_intersections"].rows =
                    {[geometry |-> r.geometry, value |-> r.value] :
                        r \in {x \in results :
                                 x.type \in {"Polygon", "MultiPolygon"}}}

\* C12 witness: create_intersections returned with two expansion polygons or
\* more, a restriction layer that has a feature, and no intersection
C12_Witness ==
    /\ pc = "ci_ret"
    /\ Cardinality(features) >= 2
    /\ LayerRows # {}
    /\ \A f \in features : \A b \in LayerRows : f.geometry \cap b.geometry = {}
    /\ files["no_intersections"].exists

\* C13: no feature of the written non-intersecting collection shares area
\* with a feature of the written intersecting collection
C13_CollectionsDisjoint ==
    \A a \in files["no_intersections"].rows :
        \A b \in files["intersections"].rows :
            a.geometry \cap b.geometry = {}

\* C13 witness: create_intersections returned with an expansion polygon of
\* which one part is in the intersecting collection and the rest in the
\* non-intersecting collection
C13_Witness ==
    /\ pc = "ci_ret"
    /\ \E f \in features :
          /\ \E b \in files["intersections"].rows :
                b.geometry # {} /\ b.geometry \subseteq f.geometry
          /\ \E a \in files["no_intersections"].rows :
                a.geometry # {} /\ a.geometry \subseteq f.geometry

\* C14: the region of the intersecting collection together with the region
\* of the non-intersecting collection is the region of the vectorized
\* expansion polygons
C14_CollectionsCover ==
    pc = "ci_ret" =>
        Region(files["intersections"].rows)
            \cup Region(files["no_intersections"].rows)
          = Region(features)

\* C14 witness: create_intersections returned with an expansion polygon
\* wholly inside the restriction layers and another one partly inside
C14_Witness ==
    /\ pc = "ci_ret"
    /\ files["no_intersections"].exists
    /\ \E f \in features :
          f.geometry \subseteq Region(files["intersections"].rows)
    /\ \E f \in features :
          /\ f.geometry \cap Region(files["intersections"].rows) # {}
          /\ f.geometry \cap Region(files["no_intersections"].rows) # {}

\* C15 as claimed: the areas of the rows of the intersecting collection and
\* the areas of the rows of the non-intersecting collection add up to the
\* area of the vectorized expansion polygons
C15_AreasAddUp ==
    pc = "ci_ret" =>
        SumArea(files["intersections"].rows)
            + SumArea(files["no_intersections"].rows)
          = SumArea(features)

\* C15 amended: the areas of the rows of the two collections add up to the
\* area of the vectorized expansion polygons plus, for each part that lies in
\* k >= 2 restriction features, k - 1 times the area of the part; they add up
\* to the area of the expansion polygons exactly when no part lies in more
\* than one restriction feature
C15_AreasAddUpWithMultiplicity ==
    pc = "ci_ret" =>
        /\ SumArea(files["intersections"].rows)
              + SumArea(files["no_intersections"].rows)
            = SumArea(features)
                + (SumCoverage({c \in Region(features) : Coverage(c) >= 2})
                     - Cardinality({c \in Region(features) : Coverage(c) >= 2}))
                  * Area({0})
        /\ (SumArea(files["intersections"].rows)
              + SumArea(files["no_intersections"].rows)
            = SumArea(features))
           <=> (\A c \in Region(features) : Coverage(c) <= 1)

\* C15 witness: create_intersections returned with expansion area inside no
\* restriction feature, inside exactly one, and inside more than one
C15_Witness ==
    /\ pc = "ci_ret"
    /\ files["no_intersections"].exists
    /\ \E c \in Region(features) : Coverage(c) = 0
    /\ \E c \in Region(features) : Coverage(c) = 1
    /\ \E c \in Region(features) : Coverage(c) >= 2

C17_NoPartialArtifacts ==
    (/\ run = 2
     /\ aborted
     /\ pc \in {"main_inter", "ci_skipped"}
     /\ files["intersections"].exists) =>
        files["no_intersections"].exists

-----------------------------------------------------------------------------
(* Properties of main *)

\* the first run completed export_image and create_intersections for both
\* labels
FirstRunCompleted ==
    \A l \in {Labels[1], Labels[2]} :
        \A c \in {"export_image", "create_intersections"} :
            [run |-> 1, call |-> c, label |-> l, completed |-> TRUE]
                \in invoked

\* C18: in a second run of main for the same month, after a first run that
\* completed the export and create_intersections for both labels, no step
\* calls export_image or create_intersections, and no step changes a .tif,
\* an intersections file or a no_intersections file
C18_SecondRunSkips ==
    [][(run = 2 /\ FirstRunCompleted) =>
          /\ invoked' = invoked
          /\ dw' = dw
          /\ \A l \in {Labels[1], Labels[2]} :
                /\ outputs'[l]["intersections"] = outputs[l]["intersections"]
                /\ outputs'[l]["no_intersections"] =
                      outputs[l]["no_intersections"]]_vars

\* C18 witness: the second run has passed its four existence tests after a
\* first run that completed both exports and both calls; one label has both
\* of its files, the other one only its intersections file
C18_Witness ==
    /\ run = 2
    /\ FirstRunCompleted
    /\ pc \in {"m_stats", "m_stats_strict", "m_sentinel", "raised"}
    /\ \A c \in invoked : c.run = 1
    /\ outputs[Labels[1]]["no_intersections"].exists
    /\ outputs[Labels[2]]["intersections"].exists
    /\ ~outputs[Labels[2]]["no_intersections"].exists

-----------------------------------------------------------------------------
(* Properties of utils.calculate_expansion_areas *)

\* the area, in thousandths of a hectare, of the part of a collection of
\* input_dir that lies inside the buffer
InsideBuffer(f) ==
    SumMilliHa({[geometry |-> buffer.geometry \cap r.geometry, id |-> r.id] :
                   r \in files[f].rows}, cell_m2)

\* the rows of the buffer summary, as returned and as written
BufferSummaryRows ==
    resumen_buffer.rows \cup stats_dir["resumen_buffer_ha.csv"].rows

\* C19: without a bogota_buffer_path, or with a path that has no file,
\* utils.calculate_expansion_areas writes no resumen_buffer_ha.csv and ends
\* without error, returning the per-zone summary
C19_SkipsBufferAndReturns ==
    (buffer.path # "present" /\ pc \in {"u_done", "raised"}) =>
        /\ pc = "u_done"
        /\ raised = "none"
        /\ ~stats_dir["resumen_buffer_ha.csv"].exists
        /\ returned.bound
        /\ returned.resumen_upl = resumen

\* C20 as claimed: the stored total_ha of the buffer summary is the stored
\* interseccion_ha plus the stored no_interseccion_ha
C20_BufferTotalIsSum ==
    \A r \in BufferSummaryRows :
        r.total_ha = r.interseccion_ha + r.no_interseccion_ha

\* C20 amended: each of the three stored values is the hundredth of a hectare
\* nearest to its own sum of areas, the total being that of both overlays
\* together; the stored total_ha is within 0.01 ha of the stored
\* interseccion_ha plus the stored no_interseccion_ha
C20_BufferTotalIsRoundedSum ==
    \A r \in BufferSummaryRows :
        /\ r.interseccion_ha % 10 = 0
        /\ r.no_interseccion_ha % 10 = 0
        /\ r.total_ha % 10 = 0
        /\ 2 * Abs(r.interseccion_ha - InsideBuffer("intersections")) <= 10
        /\ 2 * Abs(r.no_interseccion_ha - InsideBuffer("no_intersections"))
              <= 10
        /\ 2 * Abs(r.total_ha - (InsideBuffer("intersections")
                                   + InsideBuffer("no_intersections"))) <= 10
        /\ Abs(r.total_ha - (r.interseccion_ha + r.no_interseccion_ha)) <= 10

\* C20 witness: a written buffer summary whose two areas are positive and
\* whose total_ha is not their sum
C20_Witness ==
    /\ pc = "u_done"
    /\ \E r \in stats_dir["resumen_buffer_ha.csv"].rows :
          /\ r.interseccion_ha > 0
          /\ r.no_interseccion_ha > 0
          /\ r.total_ha # r.interseccion_ha + r.no_interseccion_ha

-----------------------------------------------------------------------------
(* Further properties of create_growth_clusters *)

\* the input position of the earliest member of the cluster of row j
EarliestMember(g, j) ==
    CHOOSE m \in SameCluster(g, j) : \A k \in SameCluster(g, j) : m <= k

\* C23: cluster ids follow the input order: the cluster of the feature at
\* position 0 has id 1, and of two clusters the one whose earliest member
\* comes first has the smaller id
C23_IdsInInputOrder ==
    pc = "gc_done" =>
        /\ 0 \in DOMAIN gdf => gdf[0].cluster_id = 1
        /\ \A p, q \in DOMAIN gdf :
              EarliestMember(gdf, p) < EarliestMember(gdf, q) =>
                  gdf[p].cluster_id < gdf[q].cluster_id

\* C24: when create_growth_clusters finishes, its cluster counter is the
\* number of distinct cluster_id values of the output, and these values are
\* exactly 1..K
C24_CounterIsClusterCount ==
    pc = "gc_done" =>
        /\ cluster_id = Cardinality({gdf[j].cluster_id : j \in DOMAIN gdf})
        /\ {gdf[j].cluster_id : j \in DOMAIN gdf} = 1..cluster_id

-----------------------------------------------------------------------------
(* Further properties of calculate_expansion_areas *)

\* C25: with zones that have a NOMBRE column calculate_expansion_areas finds
\* the zone names under NOMBRE in both zone overlays and raises neither at
\* the NOMBRE check nor at the groupby, whatever columns the two collections
\* carry
C25_ZoneNombreSuffices ==
    "NOMBRE" \in upl.columns =>
        /\ raised \notin {"ValueError", "KeyError"}
        /\ pc = "cea_summary" =>
              /\ "NOMBRE" \in inter_upl.columns
              /\ "NOMBRE" \in nointer_upl.columns

-----------------------------------------------------------------------------
(* Properties of set_dates *)

\* the number of the day y-m-d, counted in days along the proleptic Gregorian
\* calendar without a table of month lengths (years from March to February)
DayNumber(y, m, d) ==
    LET yy == IF m <= 2 THEN y - 1 ELSE y
        mm == IF m > 2 THEN m - 3 ELSE m + 9
        era == yy \div 400
        yoe == yy - era * 400
        doy == (153 * mm + 2) \div 5 + d - 1
    IN era * 146097 + yoe * 365 + yoe \div 4 - yoe \div 100 + doy

\* the returned dates are the last day of (anio, mes) and the last day of the
\* month before it, the latter one day before the first of (anio, mes)
DatesAreMonthEnds ==
    /\ last_day_curr.year = anio
    /\ last_day_curr.month = mes
    /\ DayNumber(last_day_curr.year, last_day_curr.month, last_day_curr.day) + 1
          = DayNumber(IF mes = 12 THEN anio + 1 ELSE anio,
                      IF mes = 12 THEN 1 ELSE mes + 1, 1)
    /\ last_day_prev.year = (IF mes = 1 THEN anio - 1 ELSE anio)
    /\ last_day_prev.month = (IF mes = 1 THEN 12 ELSE mes - 1)
    /\ DayNumber(last_day_prev.year, last_day_prev.month, last_day_prev.day) + 1
          = DayNumber(anio, mes, 1)
    /\ DayNumber(last_day_prev.year, last_day_prev.month, last_day_prev.day)
          < DayNumber(last_day_curr.year, last_day_curr.month,
                      last_day_curr.day)

-----------------------------------------------------------------------------
(* Properties of the two masks of a run *)

\* C28: every pixel that is positive in the new_urban_strict mask is positive
\* in the new_urban mask, both computed from the mosaics of the run, in the
\* images as computed and in the files exported from them
C28_StrictWithinNewUrban ==
    /\ \A p \in Pixels :
          NewUrbanImage(mosaic, Labels[2])[p] = 1 =>
              NewUrbanImage(mosaic, Labels[1])[p] = 1
    /\ (dw[Labels[1]].exists /\ dw[Labels[2]].exists) =>
          \A p \in Pixels :
              dw[Labels[2]].data[p] = 1 => dw[Labels[1]].data[p] = 1

\* C28 witness: both masks are exported in the same run, a pixel is positive
\* in both and another one is positive in new_urban only
C28_Witness ==
    /\ run = 1
    /\ dw[Labels[1]].exists
    /\ dw[Labels[2]].exists
    /\ \E p \in Pixels : dw[Labels[2]].data[p] = 1 /\ dw[Labels[1]].data[p] = 1
    /\ \E p \in Pixels : dw[Labels[2]].data[p] = 0 /\ dw[Labels[1]].data[p] = 1

-----------------------------------------------------------------------------
(* Properties of the clean up of the local copies *)

\* C26: the clean up of create_intersections and calculate_expansion_areas
\* never removes TEMP_DATA_DIR itself nor anything in it that the call did not
\* download: every step keeps the directory and the entries of others
C26_CleanupKeepsSharedDir ==
    [][/\ temp_data.root => temp_data'.root
       /\ \A e \in temp_data.entries :
             e.owner = "other" => e \in temp_data'.entries]_vars

-----------------------------------------------------------------------------
(* Properties of the report *)

\* TOP_UPLS holds min(5, rows) entries, the rows of the largest
\* interseccion_ha in non-increasing order
TopIsLargestFive ==
    /\ Len(top_upls) = (IF Len(summary_csv) < 5 THEN Len(summary_csv) ELSE 5)
    /\ \A t, u \in DOMAIN top_upls :
          t < u => /\ top_upls[t].UPL # top_upls[u].UPL
                   /\ summary_csv[top_upls[t].UPL].interseccion_ha
                         >= summary_csv[top_upls[u].UPL].interseccion_ha
                   /\ top_upls[t].INTER_HA >= top_upls[u].INTER_HA
    /\ \A t \in DOMAIN top_upls : \A k \in DOMAIN summary_csv :
          (\A u \in DOMAIN top_upls : top_upls[u].UPL # k) =>
              summary_csv[k].interseccion_ha
                  <= summary_csv[top_upls[t].UPL].interseccion_ha

\* the entry of a zone that the strict summary does not hold has the number 0
\* as its INTER_HA_STRICT
AbsentStrictIsZero ==
    \A t \in DOMAIN top_upls :
        (~strict_csv.exists \/ top_upls[t].UPL \notin DOMAIN strict_csv.rows)
            => top_upls[t].INTER_HA_STRICT = [nan |-> FALSE, v |-> 0]

\* C29: in build_report and in the report section of main, TOP_UPLS holds
\* min(5, rows) entries in non-increasing order of interseccion_ha, and a zone
\* absent from the strict summary has INTER_HA_STRICT 0, a number
C29_TopUplsOfReport ==
    pc \in {"r_main", "r_build"} => (TopIsLargestFive /\ AbsentStrictIsZero)

-----------------------------------------------------------------------------
(* Properties of the CRS of the collections *)

-----------------------------------------------------------------------------
(* Properties of create_intersections on the square raster *)

\* the sum of the areas of the rows of a written file, in m2
RECURSIVE SumAreaM2(_)
SumAreaM2(rows) ==
    IF rows = {} THEN 0
    ELSE LET r == CHOOSE x \in rows : TRUE
         IN AreaM2(r.geometry) + SumAreaM2(rows \ {r})

\* the mask is a single 2 x 2 block of positive pixels that vectorizes to
\* polygons, and the only restriction polygon covers exactly its left half
BlockAndLeftHalf ==
    \E a \in {p \in MaskCells : data[p] > 0} : LET r == a[1] c == a[2] IN
        /\ {p \in MaskCells : data[p] > 0} = Block(r, c)
        /\ nonpoly = {}
        /\ Cardinality(sac.rows \cup res.rows \cup eep.rows) = 1
        /\ \A x \in sac.rows \cup res.rows \cup eep.rows :
              x.geometry \cap Block(r, c) = LeftHalf(r, c)

\* C21: a single 2 x 2 block of 10 m pixels vectorizes to exactly one polygon
\* of 400 m2; with one restriction polygon covering exactly the left half of
\* the block the intersecting area is 200 m2 and the rest is 200 m2
C21_BlockScenario ==
    BlockAndLeftHalf =>
        /\ pc \in {"ci_features", "ci_inter", "ci_ret"} =>
              /\ Cardinality(features) = 1
              /\ \A f \in features : AreaM2(f.geometry) = 400
        /\ pc = "ci_ret" =>
              /\ files["intersections"].exists
              /\ SumAreaM2(files["intersections"].rows) = 200
              /\ files["no_intersections"].exists
              /\ SumAreaM2(files["no_intersections"].rows) = 200

\* C21 witness: create_intersections has returned for a block away from the
\* border of the raster and a restriction polygon that reaches beyond its
\* left half
C21_Witness ==
    /\ pc = "ci_ret"
    /\ BlockAndLeftHalf
    /\ data[<<4, 4>>] > 0
    /\ data[<<5, 5>>] > 0
    /\ \E x \in sac.rows \cup res.rows \cup eep.rows :
          Cardinality(x.geometry) > 2
    /\ Cardinality(files["intersections"].rows) = 1
    /\ Cardinality(files["no_intersections"].rows) = 1

====
